---- MODULE Spec2Model ----
(***************************************************************************)
(* win-apps-updater: the text pipeline of src/src/winget.rs.               *)
(*                                                                         *)
(* A Rust &str is modelled as the sequence of its bytes, each byte a       *)
(* one-character string ("N", " ", "-", ...).  LF and CR are the line feed *)
(* and the carriage return.  The two bytes of a two-byte UTF-8 character   *)
(* are "C3" (lead byte) and "A9" (continuation byte); a byte offset that   *)
(* falls on a continuation byte is not a character boundary, and slicing   *)
(* a &str there panics.                                                    *)
(*                                                                         *)
(* An Option<T> is modelled as a set with at most one element.             *)
(***************************************************************************)
EXTENDS Integers, Sequences, FiniteSets, Bags, TLC

VARIABLES
    pc,     \* "start", or the name of the function that has been applied
    arg,    \* the input of the function under check
    ret     \* its result

vars == <<pc, arg, ret>>

-----------------------------------------------------------------------------
(* Bytes and string primitives of the Rust standard library, as used.      *)

LF == "\n"
CR == "\r"
Dash == "-"
Space == " "
Utf8Lead == "C3"
Utf8Cont == "A9"

\* char::is_whitespace, restricted to the bytes of the model (str::trim)
WhiteSpace == {Space, "\t", LF, CR}

Min(S) == CHOOSE x \in S : \A y \in S : x <= y
Max(S) == CHOOSE x \in S : \A y \in S : x >= y
MinOf(a, b) == IF a <= b THEN a ELSE b

\* usize::min( a, s.len() )
Clamp(a, s) == MinOf(a, Len(s))

\* str::is_empty
is_empty(s) == Len(s) = 0

\* the 0-based byte offsets at which pat occurs in s
Occurrences(s, pat) ==
    {i \in 0..(Len(s) - Len(pat)) : SubSeq(s, i + 1, i + Len(pat)) = pat}

\* str::contains(pat)
contains(s, pat) == Occurrences(s, pat) # {}

\* str::find(pat): Option<usize>, the first byte offset of pat in s
find(s, pat) ==
    IF Occurrences(s, pat) = {} THEN {} ELSE {Min(Occurrences(s, pat))}

\* str::rfind(char): Option<usize>, scanning from the end of s
RECURSIVE rfind_from(_, _, _)
rfind_from(s, c, i) ==
    IF i = 0 THEN {}
    ELSE IF s[i] = c THEN {i - 1}
    ELSE rfind_from(s, c, i - 1)

rfind(s, c) == rfind_from(s, c, Len(s))

\* s.chars().all(|c| c == '-')
all_dashes(s) == \A i \in 1..Len(s) : s[i] = Dash

\* str::is_char_boundary(i)
is_char_boundary(s, i) ==
    \/ i = 0
    \/ i = Len(s)
    \/ i > 0 /\ i < Len(s) /\ s[i + 1] # Utf8Cont

\* whether &s[start..end] is a valid slice (it panics otherwise)
index_ok(s, start, end) ==
    /\ start <= end
    /\ end <= Len(s)
    /\ is_char_boundary(s, start)
    /\ is_char_boundary(s, end)

\* str::trim_start, str::trim_end, str::trim
RECURSIVE trim_start(_)
trim_start(s) ==
    IF s # <<>> /\ Head(s) \in WhiteSpace THEN trim_start(Tail(s)) ELSE s

RECURSIVE trim_end(_)
trim_end(s) ==
    IF s # <<>> /\ s[Len(s)] \in WhiteSpace
    THEN trim_end(SubSeq(s, 1, Len(s) - 1))
    ELSE s

trim(s) == trim_end(trim_start(s))

\* str::split_inclusive('\n'): every piece but possibly the last ends in LF
RECURSIVE split_inclusive(_)
split_inclusive(s) ==
    IF s = <<>> THEN <<>>
    ELSE LET nl == {i \in 1..Len(s) : s[i] = LF}
         IN  IF nl = {} THEN <<s>>
             ELSE <<SubSeq(s, 1, Min(nl))>>
                      \o split_inclusive(SubSeq(s, Min(nl) + 1, Len(s)))

\* the line of one piece: a final LF is dropped, and then a final CR
lines_map(piece) ==
    IF piece # <<>> /\ piece[Len(piece)] = LF
    THEN LET l == SubSeq(piece, 1, Len(piece) - 1)
         IN  IF l # <<>> /\ l[Len(l)] = CR
             THEN SubSeq(l, 1, Len(l) - 1)
             ELSE l
    ELSE piece

\* str::lines(), collected
lines_of(s) ==
    LET pieces == split_inclusive(s)
    IN  [i \in 1..Len(pieces) |-> lines_map(pieces[i])]

\* [String]::join(sep)
RECURSIVE join(_, _)
join(ls, sep) ==
    IF ls = <<>> THEN <<>>
    ELSE IF Len(ls) = 1 THEN ls[1]
    ELSE ls[1] \o sep \o join(Tail(ls), sep)

-----------------------------------------------------------------------------
(* sanitize_output, detect_wrap_width, unwrap_output                       *)

last_cr_segment_after_first(line) ==
    IF find(line, <<CR>>) = {} THEN line
    ELSE LET pos == CHOOSE p \in find(line, <<CR>>) : TRUE
         IN  SubSeq(line, pos + 2, Len(line))

\* the closure of sanitize_output: the text after the last CR of the line
last_cr_segment(line) ==
    IF rfind(line, CR) = {} THEN line
    ELSE LET pos == CHOOSE p \in rfind(line, CR) : TRUE
         IN  SubSeq(line, pos + 2, Len(line))

sanitize_output_trailing_newline(output) ==
    LET ls == lines_of(output)
    IN  join([i \in 1..Len(ls) |-> last_cr_segment(ls[i]) \o <<LF>>], <<>>)

sanitize_output(output) ==
    LET ls == lines_of(output)
    IN  join([i \in 1..Len(ls) |-> last_cr_segment(ls[i])], <<LF>>)

dash_pair_second_unchecked(ls, i) ==
    /\ ~is_empty(ls[i])
    /\ all_dashes(ls[i])
    /\ all_dashes(ls[i + 1])

\* the pairs lines.windows(2) that are both non-empty and all dashes
dash_pair(ls, i) ==
    /\ ~is_empty(ls[i])
    /\ ~is_empty(ls[i + 1])
    /\ all_dashes(ls[i])
    /\ all_dashes(ls[i + 1])

\* detect_wrap_width taking the last pair of dash lines, not the first
detect_wrap_width_last_pair(ls) ==
    LET hits == {i \in 1..(Len(ls) - 1) : dash_pair(ls, i)}
    IN  IF hits = {} THEN {} ELSE {Len(ls[Max(hits)])}

detect_wrap_width(ls) ==
    LET hits == {i \in 1..(Len(ls) - 1) : dash_pair(ls, i)}
    IN  IF hits = {} THEN {} ELSE {Len(ls[Min(hits)])}

RECURSIVE unwrap_loop_flush_at_width(_, _, _, _, _)
unwrap_loop_flush_at_width(ls, width, i, current, result) ==
    IF i > Len(ls)
    THEN IF ~is_empty(current) THEN Append(result, current) ELSE result
    ELSE LET cur == current \o ls[i]
         IN  IF Len(ls[i]) <= width
             THEN unwrap_loop_flush_at_width(ls, width, i + 1, <<>>,
                                             Append(result, cur))
             ELSE unwrap_loop_flush_at_width(ls, width, i + 1, cur, result)

\* the loop of unwrap_output without the push of a current left over
RECURSIVE unwrap_loop_drop_leftover(_, _, _, _, _)
unwrap_loop_drop_leftover(ls, width, i, current, result) ==
    IF i > Len(ls)
    THEN result
    ELSE LET cur == current \o ls[i]
         IN  IF Len(ls[i]) < width
             THEN unwrap_loop_drop_leftover(ls, width, i + 1, <<>>,
                                            Append(result, cur))
             ELSE unwrap_loop_drop_leftover(ls, width, i + 1, cur, result)

\* the loop of unwrap_output from line i on: the lines pushed to result
RECURSIVE unwrap_loop(_, _, _, _, _)
unwrap_loop(ls, width, i, current, result) ==
    IF i > Len(ls)
    THEN IF ~is_empty(current) THEN Append(result, current) ELSE result
    ELSE LET cur == current \o ls[i]
         IN  IF Len(ls[i]) < width
             THEN unwrap_loop(ls, width, i + 1, <<>>, Append(result, cur))
             ELSE unwrap_loop(ls, width, i + 1, cur, result)

unwrap_output(output) ==
    LET ls == lines_of(output)
        wrap_width == detect_wrap_width(ls)
    IN  IF wrap_width = {} THEN output
        ELSE LET width == CHOOSE w \in wrap_width : TRUE
             IN  join(unwrap_loop(ls, width, 1, <<>>, <<>>), <<LF>>)

-----------------------------------------------------------------------------
(* SpecLines: sanitize_output and unwrap_output on every text of at most   *)
(* MaxTextLen bytes over the bytes that matter to them.                    *)

MaxTextLen == 6

TextBytes == {"a", Dash, CR, LF}

Texts == UNION {[1..n -> TextBytes] : n \in 0..MaxTextLen}

InitLines ==
    /\ pc = "start"
    /\ arg \in Texts
    /\ ret = <<>>

Sanitize ==
    /\ pc = "start"
    /\ pc' = "sanitize_output"
    /\ ret' = sanitize_output(arg)
    /\ UNCHANGED arg

Unwrap ==
    /\ pc = "start"
    /\ pc' = "unwrap_output"
    /\ ret' = unwrap_output(arg)
    /\ UNCHANGED arg

NextLines == Sanitize \/ Unwrap

SpecLines == InitLines /\ [][NextLines]_vars

-----------------------------------------------------------------------------
(* Claims on sanitize_output and unwrap_output, checked under SpecLines.   *)

Bytes(s) == {s[i] : i \in 1..Len(s)}

EndsWithLF(s) == s # <<>> /\ s[Len(s)] = LF

DropLast(s) == SubSeq(s, 1, Len(s) - 1)

\* the part of a line after its last carriage return, the whole line when
\* it has none
PartAfterLastCR(line) ==
    LET crs == {i \in 1..Len(line) : line[i] = CR}
    IN  IF crs = {} THEN line ELSE SubSeq(line, Max(crs) + 1, Len(line))

\* a non-empty line that consists only of dashes
OnlyDashes(line) == line # <<>> /\ Bytes(line) = {Dash}

\* the text has two adjacent non-empty lines that both consist only of dashes
HasAdjacentDashLines(text) ==
    LET ls == lines_of(text)
    IN  \E i \in 1..(Len(ls) - 1) : OnlyDashes(ls[i]) /\ OnlyDashes(ls[i + 1])

\* C7, as stated: for every text without a carriage return, sanitize_output
\* returns exactly the input text.
C7_SanitizeIsIdentityOnCleanText ==
    (pc = "sanitize_output" /\ CR \notin Bytes(arg)) => ret = arg

\* C7, amended: for every text without a carriage return, sanitize_output
\* returns the input text, less its final line feed when it ends in one.
C7_SanitizeCleanTextDropsFinalLF ==
    (pc = "sanitize_output" /\ CR \notin Bytes(arg)) =>
        ret = (IF EndsWithLF(arg) THEN DropLast(arg) ELSE arg)

C7_Witness ==
    /\ pc = "sanitize_output"
    /\ arg = <<"a", LF, LF, Dash, LF>>
    /\ ret = <<"a", LF, LF, Dash>>

\* C8: for every text that has no two adjacent non-empty lines both made
\* only of dashes, unwrap_output returns exactly the input text.
C8_UnwrapIsIdentityWithoutDashPair ==
    (pc = "unwrap_output" /\ ~HasAdjacentDashLines(arg)) => ret = arg

C8_Witness ==
    /\ pc = "unwrap_output"
    /\ arg = <<Dash, Dash, LF, LF, Dash, LF>>
    /\ ret = arg

\* C9, as stated: the output of sanitize_output has as many lines as the
\* input, line i of the output is the part of line i of the input after its
\* last carriage return, and no carriage return remains.
C9_SanitizeKeepsLineCount ==
    pc = "sanitize_output" =>
        /\ CR \notin Bytes(ret)
        /\ Len(lines_of(ret)) = Len(lines_of(arg))
        /\ \A i \in 1..Len(lines_of(arg)) :
               lines_of(ret)[i] = PartAfterLastCR(lines_of(arg)[i])

\* C9, amended: the output of sanitize_output is carriage-return free and
\* its lines are, in order, the parts after the last carriage return of the
\* input's lines, except that a last line that comes out empty is not a
\* line of the output (the output has no final line feed).
C9_SanitizeLinewise ==
    pc = "sanitize_output" =>
        LET expected ==
                [i \in 1..Len(lines_of(arg)) |->
                    PartAfterLastCR(lines_of(arg)[i])]
        IN  /\ CR \notin Bytes(ret)
            /\ ~EndsWithLF(ret) \/ expected[Len(expected)] = <<>>
            /\ lines_of(ret) =
                   (IF expected # <<>> /\ expected[Len(expected)] = <<>>
                    THEN DropLast(expected)
                    ELSE expected)

\* "\r<a>\r<b>\r<final>" becomes exactly "<final>"
C9_Witness ==
    /\ pc = "sanitize_output"
    /\ arg = <<CR, "a", CR, Dash, CR, "a">>
    /\ ret = <<"a">>

-----------------------------------------------------------------------------
(* parse_winget_output, parse_app_line, safe_slice                         *)

LblName == <<"N", "a", "m", "e">>
LblId == <<"I", "d">>
LblVersion == <<"V", "e", "r", "s", "i", "o", "n">>
LblAvailable == <<"A", "v", "a", "i", "l", "a", "b", "l", "e">>
LblSource == <<"S", "o", "u", "r", "c", "e">>

\* "---"
SepMarker == <<Dash, Dash, Dash>>

\* a separator line is longer than this
SepMinLen == 20

\* "upgrades available"
FooterPhrase ==
    <<"u", "p", "g", "r", "a", "d", "e", "s", Space,
      "a", "v", "a", "i", "l", "a", "b", "l", "e">>

\* Result<Vec<UpdatableApp>, String>, and a panic of the call
Ok(apps) == [tag |-> "Ok", apps |-> apps, msg |-> ""]
Err(msg) == [tag |-> "Err", apps |-> <<>>, msg |-> msg]
Panic == [tag |-> "Panic", apps |-> <<>>, msg |-> ""]

UpdatableApp(name, id, version, available, source) ==
    [name |-> name, id |-> id, version |-> version,
     available |-> available, source |-> source]

\* Option<UpdatableApp>, and a panic of parse_app_line
NoApp == [tag |-> "None", app |-> <<>>]
SomeApp(app) == [tag |-> "Some", app |-> app]
AppPanic == [tag |-> "Panic", app |-> <<>>]

safe_slice_unclamped_ok(s, start, end) == index_ok(s, start, end)

\* safe_slice returns (its index expression &s[start..end] does not panic)
safe_slice_ok(s, start, end) == index_ok(s, Clamp(start, s), Clamp(end, s))

safe_slice(s, start, end) == SubSeq(s, Clamp(start, s) + 1, Clamp(end, s))

\* line[layout.source_col..] is evaluated and panics
source_slice_panics(line, layout) ==
    /\ Len(line) > layout.source_col
    /\ ~is_char_boundary(line, layout.source_col)

parse_app_line_keep_blank(line, layout) ==
    IF Len(line) <= layout.id_col THEN NoApp
    ELSE IF \/ ~safe_slice_ok(line, 0, layout.id_col)
            \/ ~safe_slice_ok(line, layout.id_col, layout.version_col)
            \/ ~safe_slice_ok(line, layout.version_col, layout.available_col)
            \/ ~safe_slice_ok(line, layout.available_col, layout.source_col)
            \/ source_slice_panics(line, layout)
         THEN AppPanic
    ELSE LET name == safe_slice(line, 0, layout.id_col)
             id == safe_slice(line, layout.id_col, layout.version_col)
             version ==
                 trim(safe_slice(line, layout.version_col,
                                 layout.available_col))
             available ==
                 trim(safe_slice(line, layout.available_col,
                                 layout.source_col))
             source ==
                 IF Len(line) > layout.source_col
                 THEN trim(SubSeq(line, layout.source_col + 1, Len(line)))
                 ELSE <<>>
         IN  IF is_empty(name) \/ is_empty(id) THEN NoApp
             ELSE SomeApp(UpdatableApp(trim(name), trim(id), version,
                                       available, source))

parse_app_line(line, layout) ==
    IF Len(line) <= layout.id_col THEN NoApp
    ELSE IF \/ ~safe_slice_ok(line, 0, layout.id_col)
            \/ ~safe_slice_ok(line, layout.id_col, layout.version_col)
            \/ ~safe_slice_ok(line, layout.version_col, layout.available_col)
            \/ ~safe_slice_ok(line, layout.available_col, layout.source_col)
            \/ source_slice_panics(line, layout)
         THEN AppPanic
    ELSE LET name == trim(safe_slice(line, 0, layout.id_col))
             id == trim(safe_slice(line, layout.id_col, layout.version_col))
             version ==
                 trim(safe_slice(line, layout.version_col,
                                 layout.available_col))
             available ==
                 trim(safe_slice(line, layout.available_col,
                                 layout.source_col))
             source ==
                 IF Len(line) > layout.source_col
                 THEN trim(SubSeq(line, layout.source_col + 1, Len(line)))
                 ELSE <<>>
         IN  IF is_empty(name) \/ is_empty(id) THEN NoApp
             ELSE SomeApp(UpdatableApp(name, id, version, available, source))

is_header_without_version(line) ==
    contains(line, LblName) /\ contains(line, LblId)

\* the predicate of lines.iter().position(..) that locates the header
is_header(line) ==
    contains(line, LblName) /\ contains(line, LblId)
        /\ contains(line, LblVersion)

\* header_idx: Option<usize>, here the 1-based index of the header line
locate_header(ls) ==
    LET hits == {i \in 1..Len(ls) : is_header(ls[i])}
    IN  IF hits = {} THEN {} ELSE {Min(hits)}

some(opt) == CHOOSE x \in opt : TRUE

ColumnLayout(id_col, version_col, available_col, source_col) ==
    [tag |-> "Ok", msg |-> "", id_col |-> id_col, version_col |-> version_col,
     available_col |-> available_col, source_col |-> source_col]

LayoutErr(msg) ==
    [tag |-> "Err", msg |-> msg, id_col |-> 0, version_col |-> 0,
     available_col |-> 0, source_col |-> 0]

column_layout_source_defaulted(header) ==
    IF find(header, LblId) = {}
    THEN LayoutErr("Missing Id column in winget output")
    ELSE IF find(header, LblVersion) = {}
    THEN LayoutErr("Missing Version column in winget output")
    ELSE IF find(header, LblAvailable) = {}
    THEN LayoutErr("Missing Available column in winget output")
    ELSE ColumnLayout(some(find(header, LblId)),
                      some(find(header, LblVersion)),
                      some(find(header, LblAvailable)),
                      IF find(header, LblSource) = {} THEN Len(header)
                      ELSE some(find(header, LblSource)))

\* the ColumnLayout built from the header, or the error of the first `?`
column_layout(header) ==
    IF find(header, LblId) = {}
    THEN LayoutErr("Missing Id column in winget output")
    ELSE IF find(header, LblVersion) = {}
    THEN LayoutErr("Missing Version column in winget output")
    ELSE IF find(header, LblAvailable) = {}
    THEN LayoutErr("Missing Available column in winget output")
    ELSE IF find(header, LblSource) = {}
    THEN LayoutErr("Missing Source column in winget output")
    ELSE ColumnLayout(some(find(header, LblId)),
                      some(find(header, LblVersion)),
                      some(find(header, LblAvailable)),
                      some(find(header, LblSource)))

is_separator_any_length(line) == contains(line, SepMarker)

\* the predicate that finds the separator line after the header
is_separator(line) == contains(line, SepMarker) /\ Len(line) > SepMinLen

data_start_at_separator(ls, header_idx) ==
    LET seps == {i \in (header_idx + 1)..Len(ls) : is_separator(ls[i])}
    IN  IF seps = {} THEN header_idx + 1 ELSE Min(seps)

\* data_start, as the 1-based index of the first data line
data_start(ls, header_idx) ==
    LET seps == {i \in (header_idx + 1)..Len(ls) : is_separator(ls[i])}
    IN  IF seps = {} THEN header_idx + 1 ELSE Min(seps) + 1

\* the loop passing over a blank or footer line instead of stopping at it
RECURSIVE parse_rows_skip_blank(_, _, _, _)
parse_rows_skip_blank(ls, i, layout, apps) ==
    IF i > Len(ls) THEN Ok(apps)
    ELSE LET trimmed == trim(ls[i])
         IN  IF is_empty(trimmed) \/ contains(trimmed, FooterPhrase)
             THEN parse_rows_skip_blank(ls, i + 1, layout, apps)
             ELSE LET app == parse_app_line(ls[i], layout)
                  IN  IF app.tag = "Panic" THEN Panic
                      ELSE IF app.tag = "Some"
                      THEN parse_rows_skip_blank(ls, i + 1, layout,
                                                 Append(apps, app.app))
                      ELSE parse_rows_skip_blank(ls, i + 1, layout, apps)

\* the loop ending at the first line that gives no record
RECURSIVE parse_rows_stop_at_invalid(_, _, _, _)
parse_rows_stop_at_invalid(ls, i, layout, apps) ==
    IF i > Len(ls) THEN Ok(apps)
    ELSE LET trimmed == trim(ls[i])
         IN  IF is_empty(trimmed) \/ contains(trimmed, FooterPhrase)
             THEN Ok(apps)
             ELSE LET app == parse_app_line(ls[i], layout)
                  IN  IF app.tag = "Panic" THEN Panic
                      ELSE IF app.tag = "Some"
                      THEN parse_rows_stop_at_invalid(ls, i + 1, layout,
                                                      Append(apps, app.app))
                      ELSE Ok(apps)

\* the loop over lines.iter().skip(data_start), from line i on
RECURSIVE parse_rows(_, _, _, _)
parse_rows(ls, i, layout, apps) ==
    IF i > Len(ls) THEN Ok(apps)
    ELSE LET trimmed == trim(ls[i])
         IN  IF is_empty(trimmed) \/ contains(trimmed, FooterPhrase)
             THEN Ok(apps)
             ELSE LET app == parse_app_line(ls[i], layout)
                  IN  IF app.tag = "Panic" THEN Panic
                      ELSE IF app.tag = "Some"
                      THEN parse_rows(ls, i + 1, layout,
                                      Append(apps, app.app))
                      ELSE parse_rows(ls, i + 1, layout, apps)

parse_winget_output(output) ==
    LET sanitized == sanitize_output(output)
        unwrapped == unwrap_output(sanitized)
        ls == lines_of(unwrapped)
        header_idx == locate_header(ls)
    IN  IF header_idx = {} THEN Ok(<<>>)
        ELSE LET header == ls[some(header_idx)]
                 layout == column_layout(header)
             IN  IF layout.tag = "Err" THEN Err(layout.msg)
                 ELSE parse_rows(ls, data_start(ls, some(header_idx)),
                                 layout, <<>>)

-----------------------------------------------------------------------------
(* SpecParse: parse_winget_output on texts of at most MaxParseLines lines  *)
(* drawn from LinePool, and on a header with the five labels in some       *)
(* order, a separator and a data line cut to every length.                 *)

Spaces(n) == [i \in 1..n |-> Space]
Dashes(n) == [i \in 1..n |-> Dash]

HdrFull ==
    LblName \o Spaces(1) \o LblId \o Spaces(2) \o LblVersion \o Spaces(1)
        \o LblAvailable \o Spaces(1) \o LblSource
HdrNoSource ==
    LblName \o Spaces(1) \o LblId \o Spaces(2) \o LblVersion \o Spaces(1)
        \o LblAvailable
HdrNoAvailable ==
    LblName \o Spaces(1) \o LblId \o Spaces(2) \o LblVersion \o Spaces(1)
        \o LblSource
HdrSwapped ==
    LblName \o Spaces(1) \o LblVersion \o Spaces(1) \o LblId \o Spaces(1)
        \o LblAvailable \o Spaces(1) \o LblSource
HdrSourceFirst ==
    LblSource \o Spaces(1) \o LblName \o Spaces(1) \o LblId \o Spaces(2)
        \o LblVersion \o Spaces(1) \o LblAvailable
HdrPartial == LblName \o Spaces(1) \o LblId
HdrOverwritten ==
    LblName \o Spaces(1) \o LblId \o Spaces(1) \o LblVersion
        \o <<CR, "N", "o">>
SepLong == Dashes(SepMinLen + 1)
SepShort == Dashes(SepMinLen)
RowFull ==
    <<"A", Space, "b", Space, Space, "X", ".", "Y", Space, "1", ".", "0">>
        \o Spaces(5) \o <<"2", ".", "0">> \o Spaces(7)
        \o <<"w", "i", "n", "g", "e", "t">>
RowShort == <<"s", "h", "o", "r", "t">>
RowNoId == <<"A", "b">> \o Spaces(7) \o <<"1", ".", "0">>
RowUtf8Split ==
    <<"A", "b", "c", "d", Utf8Lead, Utf8Cont, Space, "X", ".", "Y">>
RowUtf8Wide ==
    <<"A", "b", Space, Space, Space, "X", ".", "Y", Utf8Lead, Utf8Cont>>
        \o Spaces(6) \o <<Utf8Lead, Utf8Cont, "2", ".", "0">> \o Spaces(5)
        \o <<Utf8Lead, Utf8Cont, "w">>
BlankLine == Spaces(2)
FooterLine == <<"1", Space>> \o FooterPhrase \o <<".">>

LinePool ==
    {HdrFull, HdrNoSource, HdrNoAvailable, HdrSwapped, HdrPartial,
     HdrOverwritten, SepLong, SepShort, RowFull, RowShort, RowNoId,
     RowUtf8Split, BlankLine, FooterLine}

MaxParseLines == 3

PoolTexts ==
    {join(ls, <<LF>>) :
        ls \in UNION {[1..n -> LinePool] : n \in 0..MaxParseLines}}

Prefix(s, n) == SubSeq(s, 1, n)

\* a prefix of a valid &str that ends on a character boundary
CutRows(row) ==
    {Prefix(row, n) : n \in {k \in 0..Len(row) : is_char_boundary(row, k)}}

CutTexts ==
    {join(<<h, SepLong, r, RowFull>>, <<LF>>) :
        h \in {HdrFull, HdrSwapped, HdrSourceFirst},
        r \in CutRows(RowFull) \cup CutRows(RowUtf8Wide)}

InitParse ==
    /\ pc = "start"
    /\ arg \in PoolTexts \cup CutTexts
    /\ ret = <<>>

Parse ==
    /\ pc = "start"
    /\ pc' = "parse_winget_output"
    /\ ret' = parse_winget_output(arg)
    /\ UNCHANGED arg

NextParse == Parse

SpecParse == InitParse /\ [][NextParse]_vars

-----------------------------------------------------------------------------
(* Claims on parse_winget_output, checked under SpecParse.                 *)

\* the label occurs somewhere in the line (case-sensitive)
Has(line, label) ==
    \E i \in 1..(Len(line) - Len(label) + 1) :
        SubSeq(line, i, i + Len(label) - 1) = label

HasNameIdVersion(line) ==
    Has(line, LblName) /\ Has(line, LblId) /\ Has(line, LblVersion)

\* the lines of the text after sanitizing and unwrapping
PipelineLines(text) == lines_of(unwrap_output(sanitize_output(text)))

HeaderLocated(text) ==
    \E i \in 1..Len(PipelineLines(text)) :
        HasNameIdVersion(PipelineLines(text)[i])

\* the first line that carries Name, Id and Version
LocatedHeader(text) ==
    LET ls == PipelineLines(text)
    IN  ls[Min({i \in 1..Len(ls) : HasNameIdVersion(ls[i])})]

\* C1: when no line of the sanitized and unwrapped text carries all three of
\* Name, Id and Version, parse_winget_output returns Ok with no records.
C1_NoHeaderGivesEmptyOk ==
    (pc = "parse_winget_output" /\ ~HeaderLocated(arg)) => ret = Ok(<<>>)

\* the raw text carries the three labels, but a carriage return overwrites
\* them, and data rows follow
C1_Witness ==
    /\ pc = "parse_winget_output"
    /\ arg = join(<<HdrOverwritten, SepLong, RowFull>>, <<LF>>)
    /\ ret = Ok(<<>>)

\* C3: a located header without Available or without Source gives an error
\* value with a descriptive message and no records; a located header with
\* Id, Version, Available and Source gives no error value.
C3_MissingLabelIsTheError ==
    (pc = "parse_winget_output" /\ HeaderLocated(arg)) =>
        LET h == LocatedHeader(arg)
        IN  /\ ~Has(h, LblAvailable) =>
                   ret = Err("Missing Available column in winget output")
            /\ (Has(h, LblAvailable) /\ ~Has(h, LblSource)) =>
                   ret = Err("Missing Source column in winget output")
            /\ (Has(h, LblAvailable) /\ Has(h, LblSource)) =>
                   ret.tag # "Err"

C3_Witness ==
    /\ pc = "parse_winget_output"
    /\ arg = join(<<HdrNoSource, SepLong, RowFull>>, <<LF>>)
    /\ ret.tag = "Err"
    /\ ret.apps = <<>>

\* C4: when the located header carries all five labels, in whatever order,
\* parse_winget_output returns a list of records and never aborts, whatever
\* the length of the data lines.
C4_CompleteHeaderNeverAborts ==
    (pc = "parse_winget_output" /\ HeaderLocated(arg)
        /\ Has(LocatedHeader(arg), LblAvailable)
        /\ Has(LocatedHeader(arg), LblSource)) =>
            ret.tag = "Ok"

-----------------------------------------------------------------------------
(* SpecTable: parse_winget_output on column-aligned tables, as the tests   *)
(* build them with format!("{:<35}{:<39}{:<17}{:<17}{}", ..): a header of  *)
(* the five labels padded to the column widths, a separator of dashes, at  *)
(* most MaxRows rows of five fields padded to the same widths, and an      *)
(* optional footer; parsed as it is, and parsed after every line longer    *)
(* than a wrap width was split in two.                                     *)

\* format!("{:<w}", field)
Pad(field, w) ==
    IF Len(field) >= w THEN field ELSE field \o Spaces(w - Len(field))

\* format!("{:<w1}{:<w2}{:<w3}{:<w4}{}", f1, f2, f3, f4, f5)
FormatRow(widths, fields) ==
    Pad(fields[1], widths[1]) \o Pad(fields[2], widths[2])
        \o Pad(fields[3], widths[3]) \o Pad(fields[4], widths[4])
        \o fields[5]

HeaderLabels == <<LblName, LblId, LblVersion, LblAvailable, LblSource>>

\* the widths of the Name, Id, Version and Available columns
Layouts == {<<5, 4, 8, 10>>, <<6, 3, 8, 10>>}

FieldsSpaced ==
    <<<<"A", Space, "b">>, <<"X", ".", "Y">>, <<"1", ".", "0">>,
      <<"2", ".", "0">>, <<"w", "i", "n", "g", "e", "t">>>>
FieldsSameId ==
    <<<<"A", "b">>, <<"X", ".", "Y">>, <<"1", ".", "1">>,
      <<"2", ".", "0">>, <<"m", "s", "s", "t", "o", "r", "e">>>>
FieldsDashes == <<Dashes(5), Dashes(4), Dashes(8), Dashes(10), Dashes(6)>>
FieldsNoName ==
    <<<<>>, <<"X", ".", "Y">>, <<"1", ".", "0">>, <<"2", ".", "0">>,
      <<"w", "i", "n", "g", "e", "t">>>>
FieldsNoId ==
    <<<<"A", "b">>, <<>>, <<"1", ".", "0">>, <<"2", ".", "0">>,
      <<"w", "i", "n", "g", "e", "t">>>>
FieldsFooterPhrase ==
    <<<<"A", "b">>, <<"Z">>, <<"1", ".", "0">>,
      SubSeq(FooterPhrase, 1, 10), SubSeq(FooterPhrase, 11, 18)>>
FieldsUtf8 ==
    <<<<"C", Utf8Lead, Utf8Cont>>, <<"Q", ".", "R">>, <<"1", ".", "0">>,
      <<>>, <<>>>>

RowPool ==
    {FieldsSpaced, FieldsSameId, FieldsDashes, FieldsNoName, FieldsNoId,
     FieldsFooterPhrase, FieldsUtf8}

MaxRows == 2

\* the lengths of the separator line: the two lengths around the threshold
\* of is_separator, and the length of the header
SepLengths == {SepMinLen, SepMinLen + 1, Len(HdrFull)}

\* the console widths at which the table is wrapped
WrapWidths == {16, 17, 20, 25}

Tables ==
    [widths : Layouts,
     sep : SepLengths,
     rows : UNION {[1..n -> RowPool] : n \in 0..MaxRows},
     footer : BOOLEAN,
     wrap : WrapWidths]

\* the lines of the table, one per logical row
TableLines(t) ==
    <<FormatRow(t.widths, HeaderLabels), Dashes(t.sep)>>
        \o [i \in 1..Len(t.rows) |-> FormatRow(t.widths, t.rows[i])]
        \o (IF t.footer THEN <<FooterLine>> ELSE <<>>)

TableText(t) == join(TableLines(t), <<LF>>)

\* the closure `wrap` of the tests: a line longer than w is split in two
wrap(line, w) ==
    IF Len(line) <= w THEN line
    ELSE SubSeq(line, 1, w) \o <<LF>> \o SubSeq(line, w + 1, Len(line))

WrappedText(t) ==
    join([i \in 1..Len(TableLines(t)) |-> wrap(TableLines(t)[i], t.wrap)],
         <<LF>>)

InitTable ==
    /\ pc = "start"
    /\ arg \in Tables
    /\ ret = <<>>

ParseDirect ==
    /\ pc = "start"
    /\ pc' = "parse_direct"
    /\ ret' = parse_winget_output(TableText(arg))
    /\ UNCHANGED arg

ParseWrapped ==
    /\ pc = "start"
    /\ pc' = "parse_wrapped"
    /\ ret' = parse_winget_output(WrappedText(arg))
    /\ UNCHANGED arg

NextTable == ParseDirect \/ ParseWrapped

SpecTable == InitTable /\ [][NextTable]_vars

-----------------------------------------------------------------------------
(* Claims on parse_winget_output, checked under SpecTable.                 *)

\* the field has a byte that is not whitespace
NonBlank(field) == \E j \in 1..Len(field) : field[j] \notin WhiteSpace

\* no field is wider than its column: the row is aligned to the header
Aligned(t) ==
    \A i \in 1..Len(t.rows) :
        \A k \in 1..4 : Len(t.rows[i][k]) <= t.widths[k]

NamedRow(fields) == NonBlank(fields[1]) /\ NonBlank(fields[2])

AllRowsNamed(t) == \A i \in 1..Len(t.rows) : NamedRow(t.rows[i])

\* the record of a row: its fields, which carry no surrounding whitespace
RecordOf(fields) ==
    [name |-> fields[1], id |-> fields[2], version |-> fields[3],
     available |-> fields[4], source |-> fields[5]]

RecordsOf(rows) == [i \in 1..Len(rows) |-> RecordOf(rows[i])]

NoRowHasFooterPhrase(t) ==
    \A i \in 1..Len(t.rows) :
        ~Has(FormatRow(t.widths, t.rows[i]), FooterPhrase)

\* C2, as stated: a header, a separator line of dashes and N aligned rows
\* with non-empty name and id (and an optional footer) parse to exactly the
\* N records of the rows' trimmed fields, in order.
C2_TableParsesToItsRows ==
    (pc = "parse_direct" /\ Aligned(arg) /\ AllRowsNamed(arg)) =>
        (ret.tag = "Ok" /\ ret.apps = RecordsOf(arg.rows))

\* C2, amended: the same, provided the separator line is longer than 20
\* dashes, no two adjacent lines of the table consist only of dashes, and
\* no row contains the footer phrase "upgrades available".
C2_LongSeparatorTableParsesToItsRows ==
    (pc = "parse_direct" /\ Aligned(arg) /\ AllRowsNamed(arg)
        /\ arg.sep > SepMinLen
        /\ ~HasAdjacentDashLines(TableText(arg))
        /\ NoRowHasFooterPhrase(arg)) =>
            (ret.tag = "Ok" /\ ret.apps = RecordsOf(arg.rows))

\* two rows with the same id, the first with a space in its name
C2_Witness ==
    /\ pc = "parse_direct"
    /\ arg.rows = <<FieldsSpaced, FieldsSameId>>
    /\ arg.sep > SepMinLen
    /\ arg.footer
    /\ ret.tag = "Ok"
    /\ Len(ret.apps) = 2
    /\ ret.apps[1].name = <<"A", Space, "b">>
    /\ ret.apps[2].id = ret.apps[1].id

\* C5: every record returned has a name and an id that are non-empty after
\* trimming, and a row whose name or id is blank gives no record and no
\* error: the records are those of the other rows, in order.
C5_RecordsHaveNameAndId ==
    /\ (pc \in {"parse_direct", "parse_wrapped"} /\ ret.tag = "Ok") =>
           \A i \in 1..Len(ret.apps) :
               /\ NonBlank(ret.apps[i].name)
               /\ NonBlank(ret.apps[i].id)
               /\ ret.apps[i].name = trim(ret.apps[i].name)
               /\ ret.apps[i].id = trim(ret.apps[i].id)
    /\ (pc = "parse_direct" /\ Aligned(arg)
           /\ arg.sep > SepMinLen
           /\ ~HasAdjacentDashLines(TableText(arg))
           /\ NoRowHasFooterPhrase(arg)) =>
               (ret.tag = "Ok"
                   /\ ret.apps = RecordsOf(SelectSeq(arg.rows, NamedRow)))

\* a row without a name and a row without an id around a complete row
C5_Witness ==
    /\ pc = "parse_direct"
    /\ arg.rows = <<FieldsNoName, FieldsSpaced>>
    /\ arg.sep > SepMinLen
    /\ ret = Ok(<<RecordOf(FieldsSpaced)>>)

\* C6, as stated: for every wrap width W, a well-formed table whose lines
\* longer than W are split in two parses to the same records as the table
\* itself.
C6_WrappedTableParsesTheSame ==
    (pc = "parse_wrapped" /\ Aligned(arg) /\ AllRowsNamed(arg)
        /\ ~HasAdjacentDashLines(TableText(arg))) =>
            ret = parse_winget_output(TableText(arg))

\* every line of the table is shorter than W, or longer than W and shorter
\* than 2W
SplitsInTwoShortPieces(t) ==
    \A i \in 1..Len(TableLines(t)) :
        LET n == Len(TableLines(t)[i])
        IN  n < t.wrap \/ (t.wrap < n /\ n < 2 * t.wrap)

\* C6, amended: the same, provided the separator line is longer than W,
\* every line of the table is shorter than W or longer than W and shorter
\* than 2W, and no two adjacent lines of the table consist only of dashes.
C6_WrappedInTwoParsesTheSame ==
    (pc = "parse_wrapped" /\ Aligned(arg) /\ AllRowsNamed(arg)
        /\ ~HasAdjacentDashLines(TableText(arg))
        /\ arg.sep > arg.wrap
        /\ SplitsInTwoShortPieces(arg)) =>
            ret = parse_winget_output(TableText(arg))

\* header, separator and row are each split in two at 17 bytes
C6_Witness ==
    /\ pc = "parse_wrapped"
    /\ arg.wrap = 17
    /\ arg.sep = Len(HdrFull)
    /\ arg.rows = <<FieldsSpaced>>
    /\ arg.footer
    /\ Len(lines_of(WrappedText(arg))) = 8
    /\ ret = Ok(<<RecordOf(FieldsSpaced)>>)

-----------------------------------------------------------------------------
(* update_single_app, classify_update_result, classify_success,            *)
(* extract_error                                                           *)

\* the phrases searched in the combined output
MustBeClosed ==
    <<"a", "p", "p", "l", "i", "c", "a", "t", "i", "o", "n", Space, "m", "u",
    "s", "t", Space, "b", "e", Space, "c", "l", "o", "s", "e", "d">>
CloseTheApplication ==
    <<"C", "l", "o", "s", "e", Space, "t", "h", "e", Space, "a", "p", "p", "l",
    "i", "c", "a", "t", "i", "o", "n">>
CurrentlyInUse ==
    <<"c", "u", "r", "r", "e", "n", "t", "l", "y", Space, "i", "n", Space, "u",
    "s", "e">>
CloseAllInstances ==
    <<"c", "l", "o", "s", "e", Space, "a", "l", "l", Space, "i", "n", "s", "t",
    "a", "n", "c", "e", "s">>

\* the phrases searched in stdout
SuccessfullyInstalled ==
    <<"S", "u", "c", "c", "e", "s", "s", "f", "u", "l", "l", "y", Space, "i",
    "n", "s", "t", "a", "l", "l", "e", "d">>
LowerSuccessfully ==
    <<"s", "u", "c", "c", "e", "s", "s", "f", "u", "l", "l", "y">>
NoApplicableUpdate ==
    <<"N", "o", Space, "a", "p", "p", "l", "i", "c", "a", "b", "l", "e", Space,
    "u", "p", "d", "a", "t", "e", Space, "f", "o", "u", "n", "d">>
NoNewerVersions ==
    <<"N", "o", Space, "n", "e", "w", "e", "r", Space, "p", "a", "c", "k", "a",
    "g", "e", Space, "v", "e", "r", "s", "i", "o", "n", "s">>
NoPackageFound ==
    <<"N", "o", Space, "p", "a", "c", "k", "a", "g", "e", Space, "f", "o", "u",
    "n", "d">>

\* the pieces of the result strings
TagWarn ==
    <<"[", "!", "]", Space>>
NeedsCloseDetail ==
    <<Space, "-", Space, "n", "e", "e", "d", "s", Space, "t", "o", Space, "b", "e",
    Space, "c", "l", "o", "s", "e", "d", Space, "b", "e", "f", "o", "r", "e",
    Space, "u", "p", "d", "a", "t", "i", "n", "g">>
TagFailure ==
    <<"F", "A", "I", "L", "U", "R", "E", ":">>
DetailSep ==
    <<Space, "-", Space>>
TagSuccess ==
    <<"S", "U", "C", "C", "E", "S", "S", ":">>
UpdatedDetail ==
    <<Space, "-", Space, "u", "p", "d", "a", "t", "e", "d", Space, "s", "u", "c",
    "c", "e", "s", "s", "f", "u", "l", "l", "y">>
TagInfo ==
    <<"[", "i", "]", Space>>
UpToDateDetail ==
    <<Space, "-", Space, "a", "l", "r", "e", "a", "d", "y", Space, "u", "p", Space,
    "t", "o", Space, "d", "a", "t", "e">>
NotFoundDetail ==
    <<Space, "-", Space, "p", "a", "c", "k", "a", "g", "e", Space, "n", "o", "t",
    Space, "f", "o", "u", "n", "d">>
CompletedDetail ==
    <<Space, "-", Space, "c", "o", "m", "p", "l", "e", "t", "e", "d">>
UnknownError ==
    <<"U", "n", "k", "n", "o", "w", "n", Space, "e", "r", "r", "o", "r">>
UpdateFailed ==
    <<"U", "p", "d", "a", "t", "e", Space, "f", "a", "i", "l", "e", "d">>
FailedToExecute ==
    <<"F", "a", "i", "l", "e", "d", Space, "t", "o", Space, "e", "x", "e", "c",
    "u", "t", "e", Space, "w", "i", "n", "g", "e", "t", Space, "f", "o", "r",
    Space>>

\* an error message is cut to this many bytes
MaxDetailLen == 100

\* Result<String, String>, and a panic of the call
OkText(text) == [tag |-> "Ok", text |-> text]
ErrText(text) == [tag |-> "Err", text |-> text]
PanicText == [tag |-> "Panic", text |-> <<>>]

\* the lines of s that are not blank, as indices into lines_of(s)
non_blank_lines(s) ==
    {i \in 1..Len(lines_of(s)) : ~is_empty(trim(lines_of(s)[i]))}

\* msg, before it is cut to MaxDetailLen bytes
error_line(stdout, combined) ==
    LET stderr_part ==
            trim(IF non_blank_lines(combined) = {} THEN UnknownError
                 ELSE lines_of(combined)[Min(non_blank_lines(combined))])
    IN  IF ~is_empty(stderr_part) /\ stderr_part # trim(stdout)
        THEN stderr_part
        ELSE trim(IF non_blank_lines(stdout) = {} THEN UpdateFailed
                  ELSE lines_of(stdout)[Max(non_blank_lines(stdout))])

extract_error(stdout, combined) ==
    LET msg == error_line(stdout, combined)
    IN  IF Len(msg) > MaxDetailLen
        THEN IF is_char_boundary(msg, MaxDetailLen)
             THEN OkText(SubSeq(msg, 1, MaxDetailLen))
             ELSE PanicText
        ELSE OkText(msg)

\* classify_success with the not-found test moved before the up-to-date test
classify_success_not_found_first(app_id, stdout) ==
    IF contains(stdout, SuccessfullyInstalled)
           \/ contains(stdout, LowerSuccessfully)
    THEN TagSuccess \o app_id \o UpdatedDetail
    ELSE IF contains(stdout, NoPackageFound)
    THEN TagFailure \o app_id \o NotFoundDetail
    ELSE IF contains(stdout, NoApplicableUpdate)
                \/ contains(stdout, NoNewerVersions)
    THEN TagInfo \o app_id \o UpToDateDetail
    ELSE TagSuccess \o app_id \o CompletedDetail

\* classify_success with the not-found result tagged as a success
classify_success_not_found_as_success(app_id, stdout) ==
    IF contains(stdout, SuccessfullyInstalled)
           \/ contains(stdout, LowerSuccessfully)
    THEN TagSuccess \o app_id \o UpdatedDetail
    ELSE IF contains(stdout, NoApplicableUpdate)
                \/ contains(stdout, NoNewerVersions)
    THEN TagInfo \o app_id \o UpToDateDetail
    ELSE IF contains(stdout, NoPackageFound)
    THEN TagSuccess \o app_id \o NotFoundDetail
    ELSE TagSuccess \o app_id \o CompletedDetail

classify_success(app_id, stdout) ==
    IF contains(stdout, SuccessfullyInstalled)
           \/ contains(stdout, LowerSuccessfully)
    THEN TagSuccess \o app_id \o UpdatedDetail
    ELSE IF contains(stdout, NoApplicableUpdate)
                \/ contains(stdout, NoNewerVersions)
    THEN TagInfo \o app_id \o UpToDateDetail
    ELSE IF contains(stdout, NoPackageFound)
    THEN TagFailure \o app_id \o NotFoundDetail
    ELSE TagSuccess \o app_id \o CompletedDetail

needs_close(combined) ==
    \/ contains(combined, MustBeClosed)
    \/ contains(combined, CloseTheApplication)
    \/ contains(combined, CurrentlyInUse)
    \/ contains(combined, CloseAllInstances)

classify_update_result_exit_status_first(app_id, success, stdout, combined) ==
    IF success THEN OkText(classify_success(app_id, stdout))
    ELSE IF needs_close(combined)
    THEN OkText(TagWarn \o app_id \o NeedsCloseDetail)
    ELSE LET detail == extract_error(stdout, combined)
         IN  IF detail.tag = "Panic" THEN PanicText
             ELSE ErrText(TagFailure \o app_id \o DetailSep \o detail.text)

classify_update_result(app_id, success, stdout, combined) ==
    IF needs_close(combined)
    THEN OkText(TagWarn \o app_id \o NeedsCloseDetail)
    ELSE IF success THEN OkText(classify_success(app_id, stdout))
    ELSE LET detail == extract_error(stdout, combined)
         IN  IF detail.tag = "Panic" THEN PanicText
             ELSE ErrText(TagFailure \o app_id \o DetailSep \o detail.text)

\* update_single_app, given what Command::output() returned: an io::Error
\* (spawned = FALSE, its text in stderr) or the exit status and the streams
update_single_app(app_id, spawned, success, stdout, stderr) ==
    IF ~spawned
    THEN ErrText(FailedToExecute \o app_id \o <<":", Space>> \o stderr)
    ELSE LET combined == stdout \o <<LF>> \o stderr
         IN  classify_update_result(app_id, success, stdout, combined)

-----------------------------------------------------------------------------
(* SpecClassify: update_single_app on a stdout of at most MaxFrags pieces  *)
(* of StdoutPool, a stderr of StderrPool and either exit status.           *)

DiskFull ==
    <<"d", "i", "s", "k", Space, "f", "u", "l", "l">>
SomeError ==
    <<"S", "o", "m", "e", Space, "e", "r", "r", "o", "r">>
TestApp ==
    <<"T", "e", "s", "t", ".", "A", "p", "p">>

LongLine == [i \in 1..(MaxDetailLen + 1) |-> "x"]

\* a two-byte character across byte offset MaxDetailLen
LongUtf8Line ==
    [i \in 1..(MaxDetailLen - 1) |-> "x"] \o <<Utf8Lead, Utf8Cont>>

StdoutPool ==
    {MustBeClosed, CloseTheApplication, CurrentlyInUse, CloseAllInstances,
     SuccessfullyInstalled, LowerSuccessfully, NoApplicableUpdate,
     NoNewerVersions, NoPackageFound, SomeError, <<LF>>, Spaces(2)}

StderrPool ==
    {<<>>, DiskFull, SomeError, CurrentlyInUse, LongLine, LongUtf8Line}

MaxFrags == 2

Stdouts ==
    {join(fs, <<>>) :
        fs \in UNION {[1..n -> StdoutPool] : n \in 0..MaxFrags}}

Invocations ==
    [app_id : {TestApp}, spawned : {TRUE}, success : BOOLEAN,
     stdout : Stdouts, stderr : StderrPool]
        \cup [app_id : {TestApp}, spawned : {FALSE}, success : {FALSE},
              stdout : {<<>>}, stderr : {DiskFull}]

InitClassify ==
    /\ pc = "start"
    /\ arg \in Invocations
    /\ ret = <<>>

UpdateSingleApp ==
    /\ pc = "start"
    /\ pc' = "update_single_app"
    /\ ret' = update_single_app(arg.app_id, arg.spawned, arg.success,
                                arg.stdout, arg.stderr)
    /\ UNCHANGED arg

NextClassify == UpdateSingleApp

SpecClassify == InitClassify /\ [][NextClassify]_vars

-----------------------------------------------------------------------------
(* Claims on classify_update_result, checked under SpecClassify.           *)

ClosePhrases ==
    {MustBeClosed, CloseTheApplication, CurrentlyInUse, CloseAllInstances}

\* the combined stdout+stderr carries a close-required phrase
SaysClose(inv) ==
    \E p \in ClosePhrases : Has(inv.stdout \o <<LF>> \o inv.stderr, p)

StartsWith(text, prefix) ==
    Len(text) >= Len(prefix) /\ SubSeq(text, 1, Len(prefix)) = prefix

\* C10: whenever the combined stdout+stderr of an update invocation carries
\* a close-required phrase, the result is NeedsClose for that package, an Ok
\* value that is not tagged a failure, whatever the exit status and whatever
\* other recognised phrases the output carries.
C10_ClosePhraseGivesNeedsClose ==
    (pc = "update_single_app" /\ arg.spawned /\ SaysClose(arg)) =>
        /\ ret = OkText(TagWarn \o arg.app_id \o NeedsCloseDetail)
        /\ ~StartsWith(ret.text, TagFailure)

\* the exit status is success, stdout reports an install, and stderr says
\* the application is in use
C10_Witness ==
    /\ pc = "update_single_app"
    /\ arg.spawned
    /\ arg.success
    /\ Has(arg.stdout, SuccessfullyInstalled)
    /\ ~(\E p \in ClosePhrases : Has(arg.stdout, p))
    /\ arg.stderr = CurrentlyInUse
    /\ ret = OkText(TagWarn \o arg.app_id \o NeedsCloseDetail)

\* the outcome a result text stands for, read off its tag as
\* format_result_row reads it, and off its detail for a failure returned Ok
IsSuccess(r) == r.tag = "Ok" /\ StartsWith(r.text, TagSuccess)
IsAlreadyUpToDate(r) == r.tag = "Ok" /\ StartsWith(r.text, TagInfo)
IsNeedsClose(r) == r.tag = "Ok" /\ StartsWith(r.text, TagWarn)
IsNotFound(r) == r.tag = "Ok" /\ StartsWith(r.text, TagFailure)
IsGenericFailure(r) == r.tag = "Err" /\ StartsWith(r.text, TagFailure)

\* a spawned invocation that exited with success and says no close phrase
SucceededQuietly ==
    pc = "update_single_app" /\ arg.spawned /\ arg.success /\ ~SaysClose(arg)

SaysUpToDate(stdout) ==
    Has(stdout, NoApplicableUpdate) \/ Has(stdout, NoNewerVersions)

\* C11 as stated: on a successful exit without a close phrase the outcome is
\* chosen by the first match of "Successfully installed" (Success), "No
\* applicable update found" or "No newer package versions"
\* (AlreadyUpToDate), "No package found" (NotFound), else Success with the
\* detail "completed".
C11_FirstMatchOfThreePhrases ==
    SucceededQuietly =>
        IF Has(arg.stdout, SuccessfullyInstalled) THEN IsSuccess(ret)
        ELSE IF SaysUpToDate(arg.stdout) THEN IsAlreadyUpToDate(ret)
        ELSE IF Has(arg.stdout, NoPackageFound) THEN IsNotFound(ret)
        ELSE ret = OkText(TagSuccess \o arg.app_id \o CompletedDetail)

\* C11 amended: the first test is for "Successfully installed" or the
\* lower-case word "successfully" anywhere in stdout, and gives Success with
\* the detail "updated successfully"; the other tests follow in the stated
\* order.
C11_FirstMatchWithLowerSuccessfully ==
    SucceededQuietly =>
        IF Has(arg.stdout, SuccessfullyInstalled)
               \/ Has(arg.stdout, LowerSuccessfully)
        THEN ret = OkText(TagSuccess \o arg.app_id \o UpdatedDetail)
        ELSE IF SaysUpToDate(arg.stdout)
        THEN ret = OkText(TagInfo \o arg.app_id \o UpToDateDetail)
        ELSE IF Has(arg.stdout, NoPackageFound)
        THEN ret = OkText(TagFailure \o arg.app_id \o NotFoundDetail)
        ELSE ret = OkText(TagSuccess \o arg.app_id \o CompletedDetail)

\* stdout says both that no update applies and that no package was found
C11_Witness ==
    /\ SucceededQuietly
    /\ Has(arg.stdout, NoApplicableUpdate)
    /\ Has(arg.stdout, NoPackageFound)
    /\ IsAlreadyUpToDate(ret)

\* a spawned invocation that exited with failure and says no close phrase
FailedQuietly ==
    pc = "update_single_app" /\ arg.spawned /\ ~arg.success /\ ~SaysClose(arg)

\* the trimmed first and last non-blank lines of a text that has one
FirstNonBlankLine(s) == trim(lines_of(s)[Min(non_blank_lines(s))])
LastNonBlankLine(s) == trim(lines_of(s)[Max(non_blank_lines(s))])

\* the details C12 allows: stderr's first non-blank line when it differs
\* from trimmed stdout, else stdout's last non-blank line, else a default
DetailsFromStderr(stdout, stderr) ==
    IF non_blank_lines(stderr) # {} /\ FirstNonBlankLine(stderr) # trim(stdout)
    THEN {FirstNonBlankLine(stderr)}
    ELSE IF non_blank_lines(stdout) # {} THEN {LastNonBlankLine(stdout)}
    ELSE {UnknownError, UpdateFailed}

\* C12 as stated: on a failed exit without a close phrase the result is a
\* GenericFailure whose detail is the first non-blank line of stderr when
\* that differs from stdout's trimmed content, else the last non-blank line
\* of stdout, else a fixed default (outputs short enough not to be cut).
C12_DetailPrefersStderr ==
    (/\ FailedQuietly
     /\ Len(arg.stdout) <= MaxDetailLen
     /\ Len(arg.stderr) <= MaxDetailLen) =>
        \E d \in DetailsFromStderr(arg.stdout, arg.stderr) :
            ret = ErrText(TagFailure \o arg.app_id \o DetailSep \o d)

\* C13 as stated: for every exit status, stdout and stderr the call returns
\* one of the five outcomes, never aborts, and the text carries the package
\* id that was passed in.
C13_AlwaysOneOutcomeWithId ==
    (pc = "update_single_app" /\ arg.spawned) =>
        /\ ret.tag # "Panic"
        /\ \/ IsSuccess(ret)
           \/ IsAlreadyUpToDate(ret)
           \/ IsNeedsClose(ret)
           \/ IsNotFound(ret)
           \/ IsGenericFailure(ret)
        /\ Has(ret.text, arg.app_id)

\* which outcome the output calls for
CaseNeedsClose == pc = "update_single_app" /\ arg.spawned /\ SaysClose(arg)
CaseSuccess ==
    /\ SucceededQuietly
    /\ \/ Has(arg.stdout, SuccessfullyInstalled)
       \/ Has(arg.stdout, LowerSuccessfully)
       \/ ~SaysUpToDate(arg.stdout) /\ ~Has(arg.stdout, NoPackageFound)
CaseAlreadyUpToDate ==
    /\ SucceededQuietly
    /\ ~CaseSuccess
    /\ SaysUpToDate(arg.stdout)
CaseNotFound ==
    /\ SucceededQuietly
    /\ ~CaseSuccess
    /\ ~SaysUpToDate(arg.stdout)
    /\ Has(arg.stdout, NoPackageFound)
CaseGenericFailure == FailedQuietly

\* C14: a returned text begins "FAILURE:" exactly when the outcome is
\* NotFound or GenericFailure; Success, AlreadyUpToDate and NeedsClose texts
\* begin "SUCCESS:", "[i]" and "[!]"; NotFound is tagged a failure although
\* the exit status was success and the value is Ok.
C14_FailureTagExactlyOnFailures ==
    (pc = "update_single_app" /\ arg.spawned /\ ret.tag # "Panic") =>
        /\ StartsWith(ret.text, TagFailure)
               <=> (CaseNotFound \/ CaseGenericFailure)
        /\ CaseSuccess => IsSuccess(ret)
        /\ CaseAlreadyUpToDate => IsAlreadyUpToDate(ret)
        /\ CaseNeedsClose => IsNeedsClose(ret)
        /\ CaseNotFound => ret.tag = "Ok" /\ arg.success
        /\ CaseGenericFailure => ret.tag = "Err"

\* a successful exit whose stdout only says the package was not found
C14_Witness ==
    /\ CaseNotFound
    /\ arg.success
    /\ ret = OkText(TagFailure \o arg.app_id \o NotFoundDetail)

-----------------------------------------------------------------------------
(* SpecDetect: detect_wrap_width on the lines of a text of InitLines.      *)

DetectWrapWidth ==
    /\ pc = "start"
    /\ pc' = "detect_wrap_width"
    /\ ret' = detect_wrap_width(lines_of(arg))
    /\ UNCHANGED arg

NextDetect == DetectWrapWidth

SpecDetect == InitLines /\ [][NextDetect]_vars

\* the positions i such that lines i and i + 1 are both non-empty dash-only
DashPairs(ls) ==
    {i \in 1..(Len(ls) - 1) : OnlyDashes(ls[i]) /\ OnlyDashes(ls[i + 1])}

\* C20: detect_wrap_width returns the length of the first line of the
\* earliest pair of adjacent lines that are both non-empty and consist only
\* of dashes, and no width when the text has no such pair.
C20_WidthOfEarliestDashPair ==
    pc = "detect_wrap_width" =>
        LET ls == lines_of(arg)
        IN  IF DashPairs(ls) = {} THEN ret = {}
            ELSE \E i \in DashPairs(ls) :
                    /\ \A j \in DashPairs(ls) : i <= j
                    /\ ret = {Len(ls[i])}

\* three dash lines of lengths 2, 1, 1: two pairs, the earliest of width 2
C20_Witness ==
    /\ pc = "detect_wrap_width"
    /\ arg = <<Dash, Dash, LF, Dash, LF, Dash>>
    /\ ret = {2}

-----------------------------------------------------------------------------
(* AppState and its message handlers (app.rs), AppItem (models.rs)         *)

\* String::to_lowercase on the letters the inputs use
UpperCase ==
    <<"A", "B", "C", "D", "E", "F", "G", "H", "I", "J", "K", "L", "M", "N",
      "O", "P", "Q", "R", "S", "T", "U", "V", "W", "X", "Y", "Z">>
LowerCase ==
    <<"a", "b", "c", "d", "e", "f", "g", "h", "i", "j", "k", "l", "m", "n",
      "o", "p", "q", "r", "s", "t", "u", "v", "w", "x", "y", "z">>

char_to_lowercase(c) ==
    IF \E k \in 1..Len(UpperCase) : UpperCase[k] = c
    THEN LowerCase[CHOOSE k \in 1..Len(UpperCase) : UpperCase[k] = c]
    ELSE c

to_lowercase(s) == [i \in 1..Len(s) |-> char_to_lowercase(s[i])]

\* usize as Display prints it
DecimalDigits == <<"0", "1", "2", "3", "4", "5", "6", "7", "8", "9">>

RECURSIVE to_string(_)
to_string(n) ==
    IF n < 10 THEN <<DecimalDigits[n + 1]>>
    ELSE to_string(n \div 10) \o <<DecimalDigits[(n % 10) + 1]>>

AppItem(app, selected) == [app |-> app, selected |-> selected]

from_app(app) == AppItem(app, FALSE)

\* matches_search compared byte for byte, without lowering the case
matches_search_case_sensitive(item, query) ==
    IF is_empty(query) THEN TRUE
    ELSE contains(item.app.name, query) \/ contains(item.app.id, query)

matches_search(item, query) ==
    IF is_empty(query) THEN TRUE
    ELSE LET q == to_lowercase(query)
         IN  \/ contains(to_lowercase(item.app.name), q)
             \/ contains(to_lowercase(item.app.id), q)

\* the status messages
LoadingStatus ==
    <<"L", "o", "a", "d", "i", "n", "g", Space, "u", "p", "d", "a", "t", "a",
    "b", "l", "e", Space, "a", "p", "p", "s", ".", ".", ".">>
AvailableSuffix ==
    <<Space, "a", "p", "p", "(", "s", ")", Space, "a", "v", "a", "i", "l", "a",
    "b", "l", "e", Space, "f", "o", "r", Space, "u", "p", "d", "a", "t", "e">>
ErrorPrefix ==
    <<"E", "r", "r", "o", "r", ":", Space>>
NoAppsSelected ==
    <<"N", "o", Space, "a", "p", "p", "s", Space, "s", "e", "l", "e", "c", "t",
    "e", "d">>
UpdatingPrefix ==
    <<"U", "p", "d", "a", "t", "i", "n", "g", Space>>
UpdatingSuffix ==
    <<Space, "a", "p", "p", "(", "s", ")", ".", ".", ".">>
UpdateCancelled ==
    <<"U", "p", "d", "a", "t", "e", Space, "c", "a", "n", "c", "e", "l", "l",
    "e", "d">>
UpdateComplete ==
    <<"U", "p", "d", "a", "t", "e", Space, "c", "o", "m", "p", "l", "e", "t",
    "e">>

\* Task<Message>: none, or the call whose result comes back as a message;
\* "panic" stands for a handler that aborted
TaskNone == [kind |-> "none", id |-> <<>>]
TaskLoad == [kind |-> "get_updatable_apps", id |-> <<>>]
TaskUpdate(id) == [kind |-> "update_single_app", id |-> id]
TaskPanic == [kind |-> "panic", id |-> <<>>]

\* what a handler leaves: the state behind &mut self and the returned task
Handled(state, task) == [state |-> state, task |-> task]

\* AppState::default()
DefaultState ==
    [apps |-> <<>>, loading |-> TRUE, status_message |-> LoadingStatus,
     updating |-> FALSE, show_confirmation |-> FALSE,
     pending_updates |-> <<>>, show_results_dialog |-> FALSE,
     update_results |-> <<>>, search_query |-> <<>>, update_total |-> 0,
     update_completed |-> 0, update_queue |-> <<>>]

\* AppState::new()
AppState_new == Handled(DefaultState, TaskLoad)

selected_count(s) == Cardinality({i \in 1..Len(s.apps) : s.apps[i].selected})

\* the indices (from 0) of the apps shown under the search query
visible_indices(s) ==
    LET shown(idx) == matches_search(s.apps[idx + 1], s.search_query)
    IN  SelectSeq([i \in 1..Len(s.apps) |-> i - 1], shown)

\* ---- message handlers: each gives the state left and the task returned

handle_load_apps(s) ==
    Handled([s EXCEPT !.loading = TRUE,
                      !.search_query = <<>>,
                      !.status_message = LoadingStatus],
            TaskLoad)

\* handle_apps_loaded emptying the list on an error
handle_apps_loaded_err_clears(s, result) ==
    IF result.tag = "Ok"
    THEN Handled([s EXCEPT !.loading = FALSE,
                           !.apps = [i \in 1..Len(result.apps) |->
                                        from_app(result.apps[i])],
                           !.status_message =
                               to_string(Len(result.apps)) \o AvailableSuffix],
                 TaskNone)
    ELSE Handled([s EXCEPT !.loading = FALSE,
                           !.apps = <<>>,
                           !.status_message = ErrorPrefix \o result.msg],
                 TaskNone)

handle_apps_loaded(s, result) ==
    IF result.tag = "Ok"
    THEN Handled([s EXCEPT !.loading = FALSE,
                           !.apps = [i \in 1..Len(result.apps) |->
                                        from_app(result.apps[i])],
                           !.status_message =
                               to_string(Len(result.apps)) \o AvailableSuffix],
                 TaskNone)
    ELSE Handled([s EXCEPT !.loading = FALSE,
                           !.status_message = ErrorPrefix \o result.msg],
                 TaskNone)

\* self.apps.get_mut(index) is None past the end of the list
handle_toggle_app(s, index) ==
    IF index < Len(s.apps)
    THEN Handled([s EXCEPT !.apps[index + 1].selected = ~@], TaskNone)
    ELSE Handled(s, TaskNone)

\* the (name, id) pairs of the apps at the indices kept, in that order
pairs_at(apps, kept) ==
    [k \in 1..Len(kept) |-> <<apps[kept[k]].app.name, apps[kept[k]].app.id>>]

\* handle_update_selected taking only the selected apps the filter shows
handle_update_selected_visible_only(s) ==
    LET keep(i) == s.apps[i].selected
                       /\ matches_search(s.apps[i], s.search_query)
        selected ==
            pairs_at(s.apps, SelectSeq([i \in 1..Len(s.apps) |-> i], keep))
    IN  IF is_empty(selected)
        THEN Handled([s EXCEPT !.status_message = NoAppsSelected], TaskNone)
        ELSE Handled([s EXCEPT !.pending_updates = selected,
                               !.show_confirmation = TRUE],
                     TaskNone)

handle_update_selected(s) ==
    LET keep(i) == s.apps[i].selected
        selected ==
            pairs_at(s.apps, SelectSeq([i \in 1..Len(s.apps) |-> i], keep))
    IN  IF is_empty(selected)
        THEN Handled([s EXCEPT !.status_message = NoAppsSelected], TaskNone)
        ELSE Handled([s EXCEPT !.pending_updates = selected,
                               !.show_confirmation = TRUE],
                     TaskNone)

\* "Updating {completed}/{total} app(s)..."
UpdatingStatus(completed, total) ==
    UpdatingPrefix \o to_string(completed) \o <<"/">> \o to_string(total)
        \o UpdatingSuffix

\* handle_confirm_update without update_results.clear()
handle_confirm_update_keep_results(s) ==
    LET queue == [i \in 1..Len(s.pending_updates) |-> s.pending_updates[i][2]]
        confirmed == [s EXCEPT !.show_confirmation = FALSE,
                               !.update_queue = queue,
                               !.update_total = Len(queue),
                               !.update_completed = 0,
                               !.updating = TRUE]
    IN  IF is_empty(queue) THEN Handled(confirmed, TaskNone)
        ELSE Handled([confirmed EXCEPT !.status_message =
                                           UpdatingStatus(0, Len(queue))],
                     TaskUpdate(queue[1]))

\* handle_confirm_update without update_completed = 0
handle_confirm_update_keep_completed(s) ==
    LET queue == [i \in 1..Len(s.pending_updates) |-> s.pending_updates[i][2]]
        confirmed == [s EXCEPT !.show_confirmation = FALSE,
                               !.update_queue = queue,
                               !.update_total = Len(queue),
                               !.update_results = <<>>,
                               !.updating = TRUE]
    IN  IF is_empty(queue) THEN Handled(confirmed, TaskNone)
        ELSE Handled([confirmed EXCEPT !.status_message =
                                           UpdatingStatus(0, Len(queue))],
                     TaskUpdate(queue[1]))

handle_confirm_update(s) ==
    LET queue == [i \in 1..Len(s.pending_updates) |-> s.pending_updates[i][2]]
        confirmed == [s EXCEPT !.show_confirmation = FALSE,
                               !.update_queue = queue,
                               !.update_total = Len(queue),
                               !.update_completed = 0,
                               !.update_results = <<>>,
                               !.updating = TRUE]
    IN  IF is_empty(queue) THEN Handled(confirmed, TaskNone)
        ELSE Handled([confirmed EXCEPT !.status_message =
                                           UpdatingStatus(0, Len(queue))],
                     TaskUpdate(queue[1]))

\* handle_cancel_update leaving the confirmation dialog shown
handle_cancel_update_keep_dialog(s) ==
    Handled([s EXCEPT !.pending_updates = <<>>,
                      !.status_message = UpdateCancelled],
            TaskNone)

handle_cancel_update(s) ==
    Handled([s EXCEPT !.show_confirmation = FALSE,
                      !.pending_updates = <<>>,
                      !.status_message = UpdateCancelled],
            TaskNone)

\* handle_update_single_complete ending a batch without deselecting the apps
handle_update_single_complete_keep_selection(s, result) ==
    LET counted == [s EXCEPT !.update_results = Append(@, result),
                             !.update_completed = @ + 1]
        completed == counted.update_completed
    IN  IF completed < s.update_total
        THEN IF completed < Len(s.update_queue)
             THEN Handled([counted EXCEPT !.status_message =
                               UpdatingStatus(completed, s.update_total)],
                          TaskUpdate(s.update_queue[completed + 1]))
             ELSE Handled(counted, TaskPanic)
        ELSE Handled([counted EXCEPT !.updating = FALSE,
                                     !.show_results_dialog = TRUE,
                                     !.status_message = UpdateComplete,
                                     !.loading = TRUE],
                     TaskLoad)

\* self.update_queue[self.update_completed] panics past the end of the queue
\* handle_update_single_complete continuing with the update it has just
\* counted instead of the next one of the queue
handle_update_single_complete_same_again(s, result) ==
    LET counted == [s EXCEPT !.update_results = Append(@, result),
                             !.update_completed = @ + 1]
        completed == counted.update_completed
    IN  IF completed < s.update_total
        THEN IF completed < Len(s.update_queue)
             THEN Handled([counted EXCEPT !.status_message =
                               UpdatingStatus(completed, s.update_total)],
                          TaskUpdate(s.update_queue[completed]))
             ELSE Handled(counted, TaskPanic)
        ELSE Handled([counted EXCEPT !.updating = FALSE,
                                     !.show_results_dialog = TRUE,
                                     !.status_message = UpdateComplete,
                                     !.apps = [i \in 1..Len(s.apps) |->
                                         [s.apps[i] EXCEPT !.selected = FALSE]],
                                     !.loading = TRUE],
                     TaskLoad)

\* handle_update_single_complete ending the batch one result early
handle_update_single_complete_end_early(s, result) ==
    LET counted == [s EXCEPT !.update_results = Append(@, result),
                             !.update_completed = @ + 1]
        completed == counted.update_completed
    IN  IF completed + 1 < s.update_total
        THEN IF completed < Len(s.update_queue)
             THEN Handled([counted EXCEPT !.status_message =
                               UpdatingStatus(completed, s.update_total)],
                          TaskUpdate(s.update_queue[completed + 1]))
             ELSE Handled(counted, TaskPanic)
        ELSE Handled([counted EXCEPT !.updating = FALSE,
                                     !.show_results_dialog = TRUE,
                                     !.status_message = UpdateComplete,
                                     !.apps = [i \in 1..Len(s.apps) |->
                                         [s.apps[i] EXCEPT !.selected = FALSE]],
                                     !.loading = TRUE],
                     TaskLoad)

handle_update_single_complete(s, result) ==
    LET counted == [s EXCEPT !.update_results = Append(@, result),
                             !.update_completed = @ + 1]
        completed == counted.update_completed
    IN  IF completed < s.update_total
        THEN IF completed < Len(s.update_queue)
             THEN Handled([counted EXCEPT !.status_message =
                               UpdatingStatus(completed, s.update_total)],
                          TaskUpdate(s.update_queue[completed + 1]))
             ELSE Handled(counted, TaskPanic)
        ELSE Handled([counted EXCEPT !.updating = FALSE,
                                     !.show_results_dialog = TRUE,
                                     !.status_message = UpdateComplete,
                                     !.apps = [i \in 1..Len(s.apps) |->
                                         [s.apps[i] EXCEPT !.selected = FALSE]],
                                     !.loading = TRUE],
                     TaskLoad)

\* for idx in visible { self.apps[idx].selected = value }
set_visible(s, value) ==
    LET visible == visible_indices(s)
        hit(i) == \E k \in 1..Len(visible) : visible[k] = i - 1
    IN  [s EXCEPT !.apps = [i \in 1..Len(s.apps) |->
                               IF hit(i)
                               THEN [s.apps[i] EXCEPT !.selected = value]
                               ELSE s.apps[i]]]

handle_select_all(s) == Handled(set_visible(s, TRUE), TaskNone)

handle_deselect_all(s) == Handled(set_visible(s, FALSE), TaskNone)

handle_close_results_dialog(s) ==
    Handled([s EXCEPT !.show_results_dialog = FALSE], TaskNone)

handle_search_changed(s, query) ==
    Handled([s EXCEPT !.search_query = query], TaskNone)

\* enum Message
LoadApps == [type |-> "LoadApps"]
AppsLoaded(result) == [type |-> "AppsLoaded", result |-> result]
ToggleApp(index) == [type |-> "ToggleApp", index |-> index]
UpdateSelected == [type |-> "UpdateSelected"]
UpdateSingleComplete(result) ==
    [type |-> "UpdateSingleComplete", msg |-> result]
SelectAll == [type |-> "SelectAll"]
DeselectAll == [type |-> "DeselectAll"]
ConfirmUpdate == [type |-> "ConfirmUpdate"]
CancelUpdate == [type |-> "CancelUpdate"]
CloseResultsDialog == [type |-> "CloseResultsDialog"]
SearchChanged(query) == [type |-> "SearchChanged", query |-> query]

\* AppState::update
update(s, message) ==
    CASE message.type = "LoadApps" -> handle_load_apps(s)
      [] message.type = "AppsLoaded" -> handle_apps_loaded(s, message.result)
      [] message.type = "ToggleApp" -> handle_toggle_app(s, message.index)
      [] message.type = "UpdateSelected" -> handle_update_selected(s)
      [] message.type = "UpdateSingleComplete" ->
             handle_update_single_complete(s, message.msg)
      [] message.type = "SelectAll" -> handle_select_all(s)
      [] message.type = "DeselectAll" -> handle_deselect_all(s)
      [] message.type = "ConfirmUpdate" -> handle_confirm_update(s)
      [] message.type = "CancelUpdate" -> handle_cancel_update(s)
      [] message.type = "CloseResultsDialog" -> handle_close_results_dialog(s)
      [] message.type = "SearchChanged" ->
             handle_search_changed(s, message.query)

-----------------------------------------------------------------------------
(* SpecApp: any sequence of messages handled by AppState::update, from     *)
(* AppState::new().  pc is the handler that ran last, arg the message it   *)
(* was given, ret the state it left and the task it returned.              *)

Firefox ==
    <<"F", "i", "r", "e", "f", "o", "x">>
MozillaFirefox ==
    <<"M", "o", "z", "i", "l", "l", "a", ".", "F", "i", "r", "e", "f", "o",
    "x">>
Chrome ==
    <<"C", "h", "r", "o", "m", "e">>
GoogleChrome ==
    <<"G", "o", "o", "g", "l", "e", ".", "C", "h", "r", "o", "m", "e">>
Version1 ==
    <<"1", ".", "0">>
Version2 ==
    <<"2", ".", "0">>
Winget ==
    <<"w", "i", "n", "g", "e", "t">>
ConnectionFailed ==
    <<"C", "o", "n", "n", "e", "c", "t", "i", "o", "n", Space, "f", "a", "i",
    "l", "e", "d">>
QueryGoogle ==
    <<"G", "O", "O", "G", "L", "E">>
ResultDone ==
    <<"S", "U", "C", "C", "E", "S", "S", ":", "A", ".", "A", "p", "p", Space,
    "-", Space, "d", "o", "n", "e">>
ResultErr ==
    <<"F", "A", "I", "L", "U", "R", "E", ":", "B", Space, "-", Space, "e", "r",
    "r">>

FirefoxApp == UpdatableApp(Firefox, MozillaFirefox, Version1, Version2, Winget)
ChromeApp == UpdatableApp(Chrome, GoogleChrome, Version1, Version2, Winget)

MaxApps == 2

\* the lists winget reports: the two apps in turn, up to MaxApps entries
AppLists ==
    {[i \in 1..n |-> IF i % 2 = 1 THEN FirefoxApp ELSE ChromeApp] :
        n \in 0..MaxApps}

LoadResults == {Ok(apps) : apps \in AppLists} \cup {Err(ConnectionFailed)}

\* the search box: empty, or a query that matches the id of ChromeApp only
\* once the case is lowered
Queries == {<<>>, QueryGoogle}

UpdateResults == {ResultDone, ResultErr}

\* update_completed is counted up to here
MaxCompleted == 2

InitApp ==
    /\ pc = "new"
    /\ arg = [type |-> "new"]
    /\ ret = AppState_new

\* one action per message: update() is called with it, unless a handler has
\* aborted
OnLoadApps ==
    /\ ret.task # TaskPanic
    /\ pc' = "handle_load_apps"
    /\ arg' = LoadApps
    /\ ret' = update(ret.state, LoadApps)

OnAppsLoaded ==
    \E result \in LoadResults :
        /\ ret.task # TaskPanic
        /\ pc' = "handle_apps_loaded"
        /\ arg' = AppsLoaded(result)
        /\ ret' = update(ret.state, AppsLoaded(result))

OnToggleApp ==
    \E index \in 0..MaxApps :
        /\ ret.task # TaskPanic
        /\ pc' = "handle_toggle_app"
        /\ arg' = ToggleApp(index)
        /\ ret' = update(ret.state, ToggleApp(index))

OnUpdateSelected ==
    /\ ret.task # TaskPanic
    /\ pc' = "handle_update_selected"
    /\ arg' = UpdateSelected
    /\ ret' = update(ret.state, UpdateSelected)

OnUpdateSingleComplete ==
    \E result \in UpdateResults :
        /\ ret.task # TaskPanic
        /\ ret.state.update_completed < MaxCompleted
        /\ pc' = "handle_update_single_complete"
        /\ arg' = UpdateSingleComplete(result)
        /\ ret' = update(ret.state, UpdateSingleComplete(result))

OnSelectAll ==
    /\ ret.task # TaskPanic
    /\ pc' = "handle_select_all"
    /\ arg' = SelectAll
    /\ ret' = update(ret.state, SelectAll)

OnDeselectAll ==
    /\ ret.task # TaskPanic
    /\ pc' = "handle_deselect_all"
    /\ arg' = DeselectAll
    /\ ret' = update(ret.state, DeselectAll)

OnConfirmUpdate ==
    /\ ret.task # TaskPanic
    /\ pc' = "handle_confirm_update"
    /\ arg' = ConfirmUpdate
    /\ ret' = update(ret.state, ConfirmUpdate)

OnCancelUpdate ==
    /\ ret.task # TaskPanic
    /\ pc' = "handle_cancel_update"
    /\ arg' = CancelUpdate
    /\ ret' = update(ret.state, CancelUpdate)

OnCloseResultsDialog ==
    /\ ret.task # TaskPanic
    /\ pc' = "handle_close_results_dialog"
    /\ arg' = CloseResultsDialog
    /\ ret' = update(ret.state, CloseResultsDialog)

OnSearchChanged ==
    \E query \in Queries :
        /\ ret.task # TaskPanic
        /\ pc' = "handle_search_changed"
        /\ arg' = SearchChanged(query)
        /\ ret' = update(ret.state, SearchChanged(query))

NextApp ==
    \/ OnLoadApps
    \/ OnAppsLoaded
    \/ OnToggleApp
    \/ OnUpdateSelected
    \/ OnUpdateSingleComplete
    \/ OnSelectAll
    \/ OnDeselectAll
    \/ OnConfirmUpdate
    \/ OnCancelUpdate
    \/ OnCloseResultsDialog
    \/ OnSearchChanged

SpecApp == InitApp /\ [][NextApp]_vars

-----------------------------------------------------------------------------
(* Claims on the message handlers, checked under SpecApp.  In a step, ret  *)
(* holds the state before the handler ran, ret' the state it left and the  *)
(* task it returned, arg' the message.                                     *)

AllDeselected(apps) == \A i \in 1..Len(apps) : ~apps[i].selected

\* C15 as stated: UpdateSingleComplete appends the result and increments
\* update_completed; below update_total, updating stays true, the results
\* dialog stays hidden and the update of update_queue[update_completed] is
\* started; otherwise the batch ends: updating false, results dialog shown,
\* every app deselected, status "Update complete", a reload started with
\* loading true.
C15_ContinueWithDialogHidden ==
    [][pc' = "handle_update_single_complete" =>
        LET s == ret.state
            t == ret'.state
        IN  /\ t.update_results = Append(s.update_results, arg'.msg)
            /\ t.update_completed = s.update_completed + 1
            /\ IF t.update_completed < t.update_total
               THEN /\ t.updating
                    /\ ~t.show_results_dialog
                    /\ ret'.task =
                           TaskUpdate(t.update_queue[t.update_completed + 1])
               ELSE /\ ~t.updating
                    /\ t.show_results_dialog
                    /\ AllDeselected(t.apps)
                    /\ t.status_message = UpdateComplete
                    /\ ret'.task = TaskLoad
                    /\ t.loading]_vars

\* C15 amended: below update_total, updating stays true and
\* show_results_dialog keeps the value it had (it is still true when the
\* results dialog of an earlier batch was never closed); the rest as stated.
C15_ContinueLeavesDialogAsItWas ==
    [][pc' = "handle_update_single_complete" =>
        LET s == ret.state
            t == ret'.state
        IN  /\ t.update_results = Append(s.update_results, arg'.msg)
            /\ t.update_completed = s.update_completed + 1
            /\ IF t.update_completed < t.update_total
               THEN /\ s.updating
                    /\ t.updating
                    /\ t.show_results_dialog = s.show_results_dialog
                    /\ ret'.task =
                           TaskUpdate(t.update_queue[t.update_completed + 1])
               ELSE /\ ~t.updating
                    /\ t.show_results_dialog
                    /\ AllDeselected(t.apps)
                    /\ t.status_message = UpdateComplete
                    /\ ret'.task = TaskLoad
                    /\ t.loading]_vars

\* the first of two updates has completed while the results dialog of an
\* earlier batch is still open
C15_Witness ==
    /\ pc = "handle_update_single_complete"
    /\ ret.state.update_completed = 1
    /\ ret.state.update_total = 2
    /\ ret.state.updating
    /\ ret.state.show_results_dialog
    /\ ret.task = TaskUpdate(ret.state.update_queue[2])

\* C16: ConfirmUpdate hides the confirmation dialog, sets update_queue to
\* the ids of pending_updates in order, update_total to its length,
\* update_completed to 0, clears update_results and sets updating; it starts
\* the update of update_queue[0] when the queue is non-empty and no update
\* when pending_updates is empty.
C16_ConfirmStartsTheBatch ==
    [][pc' = "handle_confirm_update" =>
        LET s == ret.state
            t == ret'.state
        IN  /\ ~t.show_confirmation
            /\ Len(t.update_queue) = Len(s.pending_updates)
            /\ \A i \in 1..Len(s.pending_updates) :
                   t.update_queue[i] = s.pending_updates[i][2]
            /\ t.update_total = Len(t.update_queue)
            /\ t.update_completed = 0
            /\ t.update_results = <<>>
            /\ t.updating
            /\ IF s.pending_updates = <<>> THEN ret'.task = TaskNone
               ELSE ret'.task = TaskUpdate(t.update_queue[1])]_vars

\* a batch of two is confirmed; its first update is started
C16_Witness ==
    /\ pc = "handle_confirm_update"
    /\ ret.state.update_queue = <<MozillaFirefox, GoogleChrome>>
    /\ ret.state.update_total = 2
    /\ ret.state.updating
    /\ ret.task = TaskUpdate(MozillaFirefox)

\* the (name, id) pairs of the selected apps, in list order
RECURSIVE PairsOfSelected(_)
PairsOfSelected(apps) ==
    IF apps = <<>> THEN <<>>
    ELSE (IF Head(apps).selected
          THEN <<(<<Head(apps).app.name, Head(apps).app.id>>)>>
          ELSE <<>>)
             \o PairsOfSelected(Tail(apps))

\* C17 as stated: UpdateSelected with a selected app sets pending_updates to
\* the (name, id) pairs of all selected apps in list order, hidden ones
\* included, and shows the confirmation dialog without starting an update;
\* with none selected it only sets the status to "No apps selected",
\* leaving show_confirmation false and pending_updates unchanged.
C17_NoSelectionLeavesDialogHidden ==
    [][pc' = "handle_update_selected" =>
        LET s == ret.state
            t == ret'.state
        IN  /\ ret'.task = TaskNone
            /\ IF AllDeselected(s.apps)
               THEN /\ t = [s EXCEPT !.status_message = NoAppsSelected]
                    /\ ~t.show_confirmation
               ELSE /\ t.pending_updates = PairsOfSelected(s.apps)
                    /\ t.show_confirmation]_vars

\* C17 amended: with none selected it only sets the status, leaving
\* show_confirmation and pending_updates as they were (the dialog stays
\* shown when it was shown); the rest as stated.
C17_NoSelectionOnlySetsStatus ==
    [][pc' = "handle_update_selected" =>
        LET s == ret.state
            t == ret'.state
        IN  /\ ret'.task = TaskNone
            /\ IF AllDeselected(s.apps)
               THEN /\ t = [s EXCEPT !.status_message = NoAppsSelected]
                    /\ t.show_confirmation = s.show_confirmation
                    /\ t.pending_updates = s.pending_updates
               ELSE /\ t.pending_updates = PairsOfSelected(s.apps)
                    /\ t.show_confirmation]_vars

\* both apps are selected while the search shows only the second
C17_Witness ==
    /\ pc = "handle_update_selected"
    /\ ret.state.search_query = QueryGoogle
    /\ Len(ret.state.apps) = 2
    /\ ret.state.apps[1].selected
    /\ ret.state.apps[2].selected
    /\ ret.state.pending_updates =
           <<(<<Firefox, MozillaFirefox>>), (<<Chrome, GoogleChrome>>)>>
    /\ ret.state.show_confirmation

\* c and d are the same letter, in either case
SameLetter(c, d) ==
    \/ c = d
    \/ \E k \in 1..Len(UpperCase) :
           {c, d} = {UpperCase[k], LowerCase[k]}

\* text contains query, case-insensitively
HasIgnoringCase(text, query) ==
    \E off \in 0..(Len(text) - Len(query)) :
        \A k \in 1..Len(query) : SameLetter(text[off + k], query[k])

MatchesQuery(item, query) ==
    \/ HasIgnoringCase(item.app.name, query)
    \/ HasIgnoringCase(item.app.id, query)

\* C18: SelectAll sets selected = true and DeselectAll selected = false for
\* exactly the apps whose name or id contains the search query
\* case-insensitively (all apps when the query is empty; visible_indices
\* lists them in ascending index order); the selection of every other app
\* and every other field of the state is unchanged.
C18_SelectAllTouchesOnlyMatches ==
    [][pc' \in {"handle_select_all", "handle_deselect_all"} =>
        LET s == ret.state
            t == ret'.state
            vis == visible_indices(s)
        IN  /\ ret'.task = TaskNone
            /\ \A k \in 1..(Len(vis) - 1) : vis[k] < vis[k + 1]
            /\ {vis[k] + 1 : k \in 1..Len(vis)} =
                   {i \in 1..Len(s.apps) :
                       MatchesQuery(s.apps[i], s.search_query)}
            /\ Len(t.apps) = Len(s.apps)
            /\ \A i \in 1..Len(s.apps) :
                   /\ t.apps[i].app = s.apps[i].app
                   /\ t.apps[i].selected =
                          IF MatchesQuery(s.apps[i], s.search_query)
                          THEN pc' = "handle_select_all"
                          ELSE s.apps[i].selected
            /\ t = [s EXCEPT !.apps = t.apps]]_vars

\* SelectAll under a query that matches only the second app's id once the
\* case is lowered: the first app stays unselected
C18_Witness ==
    /\ pc = "handle_select_all"
    /\ ret.state.search_query = QueryGoogle
    /\ Len(ret.state.apps) = 2
    /\ ~ret.state.apps[1].selected
    /\ ret.state.apps[2].selected

\* C19: AppsLoaded always sets loading to false; a successful result
\* replaces the list by the loaded apps in order, all unselected, and the
\* status reports their count; an error leaves the list and every selection
\* unchanged and puts the error text in the status.
C19_AppsLoadedReplacesOrKeeps ==
    [][pc' = "handle_apps_loaded" =>
        LET s == ret.state
            t == ret'.state
            result == arg'.result
        IN  /\ ~t.loading
            /\ IF result.tag = "Ok"
               THEN /\ Len(t.apps) = Len(result.apps)
                    /\ \A i \in 1..Len(result.apps) :
                           /\ t.apps[i].app = result.apps[i]
                           /\ ~t.apps[i].selected
                    /\ StartsWith(t.status_message,
                                  to_string(Len(result.apps)) \o <<Space>>)
               ELSE /\ t.apps = s.apps
                    /\ Has(t.status_message, result.msg)]_vars

\* a load fails while two apps are listed and the first is selected
C19_Witness ==
    /\ pc = "handle_apps_loaded"
    /\ arg.result.tag = "Err"
    /\ Len(ret.state.apps) = 2
    /\ ret.state.apps[1].selected
    /\ ~ret.state.loading
    /\ Has(ret.state.status_message, ConnectionFailed)

-----------------------------------------------------------------------------
(* Claims on the unwrapping loop of unwrap_output, checked under SpecLines. *)

\* the k-th smallest element of a set of numbers
KthOf(S, k) == CHOOSE e \in S : Cardinality({x \in S : x <= e}) = k

\* the physical lines that end an output line: those shorter than W
RunEnds(ls, W) == {i \in 1..Len(ls) : Len(ls[i]) < W}

\* the physical lines from..to written one after the other
RunText(ls, from, to) ==
    join([i \in 1..(to - from + 1) |-> ls[from + i - 1]], <<>>)

\* one text per maximal run of physical lines ending at a line shorter than
\* W, then the run left over after the last such line, if any
RunLines(ls, W) ==
    LET ends == RunEnds(ls, W)
        n == Cardinality(ends)
        last == IF ends = {} THEN 0 ELSE Max(ends)
        closed == [k \in 1..n |->
                      RunText(ls,
                              IF k = 1 THEN 1 ELSE KthOf(ends, k - 1) + 1,
                              KthOf(ends, k))]
    IN  IF last < Len(ls)
        THEN Append(closed, RunText(ls, last + 1, Len(ls)))
        ELSE closed

\* C21: when a wrap width W is detected, unwrap_output emits one output line
\* per maximal run of consecutive physical lines ending at the first line
\* shorter than W, the concatenation of the run's lines; lines of length W or
\* more never end an output line, and a run left over after the last
\* physical line is emitted as a final line.
C21_OneOutputLinePerRun ==
    (pc = "unwrap_output" /\ HasAdjacentDashLines(arg)) =>
        LET ls == lines_of(arg)
            W == Len(ls[Min(DashPairs(ls))])
        IN  ret = join(RunLines(ls, W), <<LF>>)

\* lines "-", "-", "", "a" under W = 1: the run "-", "-", "" gives "--", and
\* "a" is left over
C21_Witness ==
    /\ pc = "unwrap_output"
    /\ arg = <<Dash, LF, Dash, LF, LF, "a">>
    /\ ret = <<Dash, Dash, LF, "a">>

-----------------------------------------------------------------------------
(* SpecBody: parse_winget_output on the header HdrFull followed by at most *)
(* MaxBodyLines lines of BodyPool: separator, rows that give a record,     *)
(* rows that give none, a blank line and the footer.                       *)

\* the column widths of HdrFull
BodyWidths == <<5, 4, 8, 10>>

FieldsDashed ==
    <<<<"a", Dash, Dash, Dash>>, <<"X", ".", "Y">>, <<"1", ".", "0">>,
      <<"2", ".", "0">>, <<"w", "i", "n", "g", "e", "t">>>>

RowSameId == FormatRow(BodyWidths, FieldsSameId)
RowDashed == FormatRow(BodyWidths, FieldsDashed)
RowBlankName == FormatRow(BodyWidths, FieldsNoName)

BodyPool ==
    {SepLong, RowFull, RowSameId, RowDashed, RowShort, RowNoId, RowBlankName,
     BlankLine, FooterLine}

MaxBodyLines == 3

BodyTexts ==
    {join(<<HdrFull>> \o body, <<LF>>) :
        body \in UNION {[1..n -> BodyPool] : n \in 0..MaxBodyLines}}

InitBody ==
    /\ pc = "start"
    /\ arg \in BodyTexts
    /\ ret = <<>>

ParseBody ==
    /\ pc = "start"
    /\ pc' = "parse_body"
    /\ ret' = parse_winget_output(arg)
    /\ UNCHANGED arg

NextBody == ParseBody

SpecBody == InitBody /\ [][NextBody]_vars

-----------------------------------------------------------------------------
(* Claims on the data lines of parse_winget_output, checked under SpecBody. *)

\* the index of the header among the lines
HeaderIndex(ls) == Min({i \in 1..Len(ls) : HasNameIdVersion(ls[i])})

\* the lines after the header that consist of more than SepMinLen dashes
DashSeparators(ls) ==
    {i \in (HeaderIndex(ls) + 1)..Len(ls) :
        OnlyDashes(ls[i]) /\ Len(ls[i]) > SepMinLen}

\* C22 as stated: data parsing starts at the line following the first line
\* after the header that consists of a long run of dashes; without such a
\* line it starts at the line immediately after the header, so that every
\* data row following the header is parsed.
C22_DataStartsAfterDashLine ==
    pc = "parse_body" =>
        LET ls == PipelineLines(arg)
            from == IF DashSeparators(ls) = {} THEN HeaderIndex(ls) + 1
                    ELSE Min(DashSeparators(ls)) + 1
        IN  ret = parse_rows(ls, from, column_layout(ls[HeaderIndex(ls)]),
                             <<>>)

\* the index of the first line of data, as parse_winget_output computes it
DataStart(ls) == data_start(ls, HeaderIndex(ls))

\* the lines from the data start on that are blank or hold the footer phrase
StopLines(ls) ==
    {i \in DataStart(ls)..Len(ls) :
        ~NonBlank(ls[i]) \/ Has(ls[i], FooterPhrase)}

\* the index of the line record parsing stops at, Len(ls) + 1 without one
StopLine(ls) ==
    IF StopLines(ls) = {} THEN Len(ls) + 1 ELSE Min(StopLines(ls))

\* the records of the lines from..to, in order
RECURSIVE RecordsBetween(_, _, _, _)
RecordsBetween(ls, from, to, layout) ==
    IF from > to THEN <<>>
    ELSE LET app == parse_app_line(ls[from], layout)
         IN  (IF app.tag = "Some" THEN <<app.app>> ELSE <<>>)
                 \o RecordsBetween(ls, from + 1, to, layout)

\* C23: record parsing stops at the first line, from the data start, that is
\* blank or contains the footer phrase: the result is exactly the records of
\* the lines between the data start and that line, in order, and none comes
\* from that line or a later one.
C23_RecordsEndAtBlankOrFooter ==
    pc = "parse_body" =>
        LET ls == PipelineLines(arg)
        IN  ret = Ok(RecordsBetween(ls, DataStart(ls), StopLine(ls) - 1,
                                    column_layout(ls[HeaderIndex(ls)])))

\* a row, a blank line, a second row: only the first row is returned
C23_Witness ==
    /\ pc = "parse_body"
    /\ arg = join(<<HdrFull, RowFull, BlankLine, RowSameId>>, <<LF>>)
    /\ ret = Ok(<<RecordOf(FieldsSpaced)>>)

\* the line is not longer than the id column offset, or its name slice or
\* its id slice trims to empty
YieldsNoRecord(line, layout) ==
    \/ Len(line) <= layout.id_col
    \/ ~NonBlank(SubSeq(line, 1, layout.id_col))
    \/ ~NonBlank(SubSeq(line, layout.id_col + 1,
                        Min({layout.version_col, Len(line)})))

\* C24: a non-blank data line that yields no record is skipped without error
\* and without ending the parse: each line between the data start and the
\* first blank or footer line that does yield a record has it in the result,
\* whatever lines precede it.
C24_InvalidLineIsSkipped ==
    pc = "parse_body" =>
        LET ls == PipelineLines(arg)
            layout == column_layout(ls[HeaderIndex(ls)])
            Data == DataStart(ls)..(StopLine(ls) - 1)
            Valid == {j \in Data : ~YieldsNoRecord(ls[j], layout)}
        IN  /\ ret.tag = "Ok"
            /\ Len(ret.apps) = Cardinality(Valid)
            /\ \A i \in Data \ Valid : \A j \in Valid :
                   i < j =>
                       \E k \in 1..Len(ret.apps) :
                           ret.apps[k].name =
                               trim(SubSeq(ls[j], 1, layout.id_col))

\* a short line, then two rows: both rows are returned
C24_Witness ==
    /\ pc = "parse_body"
    /\ arg = join(<<HdrFull, RowShort, RowFull, RowSameId>>, <<LF>>)
    /\ ret = Ok(<<RecordOf(FieldsSpaced), RecordOf(FieldsSameId)>>)

\* the row holding three dashes is taken for the separator and dropped
C22_DashedRowDropped ==
    /\ pc = "parse_body"
    /\ arg = join(<<HdrFull, RowDashed, RowSameId>>, <<LF>>)
    /\ ret = Ok(<<RecordOf(FieldsSameId)>>)

-----------------------------------------------------------------------------
(* SpecExtract: extract_error on a stdout and a combined output drawn from *)
(* ExtractPool: empty and blank texts, short lines, a line to be trimmed,  *)
(* two lines, and lines around MaxDetailLen bytes with and without         *)
(* two-byte characters.                                                    *)

ExactLine == [i \in 1..MaxDetailLen |-> "x"]

\* 60 two-byte characters: 120 bytes
WideLine == [i \in 1..120 |-> IF i % 2 = 1 THEN Utf8Lead ELSE Utf8Cont]

ExtractPool ==
    {<<>>, Spaces(2), DiskFull, SomeError, <<Space>> \o SomeError \o <<Space>>,
     DiskFull \o <<LF>> \o SomeError, <<LF>> \o SomeError \o <<LF>>,
     ExactLine, LongLine, LongUtf8Line, WideLine}

InitExtract ==
    /\ pc = "start"
    /\ arg \in [stdout : ExtractPool, combined : ExtractPool]
    /\ ret = <<>>

ExtractError ==
    /\ pc = "start"
    /\ pc' = "extract_error"
    /\ ret' = extract_error(arg.stdout, arg.combined)
    /\ UNCHANGED arg

NextExtract == ExtractError

SpecExtract == InitExtract /\ [][NextExtract]_vars

\* the number of characters of s: every byte but the continuation bytes
CharCount(s) == Cardinality({i \in 1..Len(s) : s[i] # Utf8Cont})

\* the first n characters of s
FirstChars(s, n) ==
    SubSeq(s, 1,
           Max({k \in 0..Len(s) :
                   is_char_boundary(s, k) /\ CharCount(SubSeq(s, 1, k)) <= n}))

\* C25 as stated: for every stdout and combined output extract_error returns
\* a single trimmed line of at most 100 characters: a candidate line longer
\* than that is cut to its first 100 characters, a shorter one is returned
\* whole.
C25_DetailIsAtMost100Characters ==
    pc = "extract_error" =>
        LET candidate == error_line(arg.stdout, arg.combined)
        IN  /\ ret.tag = "Ok"
            /\ ~contains(ret.text, <<LF>>)
            /\ trim(ret.text) = ret.text
            /\ CharCount(ret.text) <= MaxDetailLen
            /\ ret.text = IF CharCount(candidate) > MaxDetailLen
                          THEN FirstChars(candidate, MaxDetailLen)
                          ELSE candidate

\* the cut at byte MaxDetailLen falls inside a two-byte character
C25_CutInsideCharacter ==
    /\ pc = "extract_error"
    /\ arg = [stdout |-> <<>>, combined |-> LongUtf8Line]
    /\ ret = PanicText

\* a line of 60 characters is cut to its first 50
C25_ShortLineCut ==
    /\ pc = "extract_error"
    /\ arg = [stdout |-> <<>>, combined |-> WideLine]
    /\ ret = OkText(SubSeq(WideLine, 1, MaxDetailLen))

-----------------------------------------------------------------------------
(* Claim on the confirmation dialog, checked under SpecApp.                *)

\* C29: after any sequence of messages handled by update from the initial
\* state, show_confirmation = true implies that pending_updates is not
\* empty; a ConfirmUpdate handled while the dialog is shown therefore starts
\* a batch of at least one update, with the task for its first id.
C29_ShownDialogHasPendingUpdates ==
    [][/\ ret'.state.show_confirmation =>
              ~is_empty(ret'.state.pending_updates)
       /\ (pc' = "handle_confirm_update" /\ ret.state.show_confirmation) =>
              /\ ret'.state.update_total >= 1
              /\ ret'.task = TaskUpdate(ret.state.pending_updates[1][2])]_vars

\* the dialog is still shown, with its pending updates, after the selection
\* it was opened for has been cleared
C29_Witness ==
    /\ pc = "handle_deselect_all"
    /\ ret.state.show_confirmation
    /\ selected_count(ret.state) = 0
    /\ Len(ret.state.pending_updates) = MaxApps

-----------------------------------------------------------------------------
(* SpecView: AppState::update driven by the messages of the window and by  *)
(* the completions of the tasks the handlers return.  ret holds, besides   *)
(* the state and the task returned last, the bag of tasks issued and not   *)
(* yet completed, and whether every message so far was one build_view      *)
(* offered in the state it was sent in.  AppsLoaded and                    *)
(* UpdateSingleComplete are delivered only as the completion of a running  *)
(* task, in any order.  Under SpecView the window sends a message only     *)
(* where build_view offers it; SpecTasks adds one UpdateSelected sent      *)
(* while a batch runs, where the toolbar does not offer it.                *)

\* the messages update_single_app(id) can deliver for the ids of the apps:
\* Ok(msg) | Err(msg) => msg
OutcomesOf ==
    [id \in {MozillaFirefox, GoogleChrome} |->
        {update_single_app(id, TRUE, TRUE, SuccessfullyInstalled, <<>>).text,
         update_single_app(id, TRUE, FALSE, <<>>, DiskFull).text}]

UpdateOutcomes(id) == OutcomesOf[id]

\* whether build_view offers the message in state s
Offered(s, message) ==
    CASE message.type \in {"LoadApps", "SelectAll", "DeselectAll"} ->
             ~s.updating /\ ~s.loading
      [] message.type = "UpdateSelected" ->
             ~s.updating /\ ~s.loading /\ selected_count(s) > 0
      [] message.type = "ToggleApp" ->
             /\ ~s.loading
             /\ ~s.updating
             /\ \E k \in 1..Len(visible_indices(s)) :
                    visible_indices(s)[k] = message.index
      [] message.type = "SearchChanged" -> TRUE
      [] message.type \in {"ConfirmUpdate", "CancelUpdate"} ->
             s.show_confirmation
      [] message.type = "CloseResultsDialog" -> s.show_results_dialog
      [] OTHER -> FALSE

\* Task::perform hands the task to the runtime; Task::none() hands nothing
Spawn(running, task) ==
    IF task.kind \in {TaskLoad.kind, "update_single_app"}
    THEN running (+) SetToBag({task})
    ELSE running

\* ret after update() has handled a message of the window
Sent(r, message) ==
    LET handled == update(r.state, message)
    IN  [state |-> handled.state, task |-> handled.task,
         running |-> Spawn(r.running, handled.task),
         offered |-> r.offered /\ Offered(r.state, message)]

\* ret after a running task has completed and update() has handled its
\* message
Completed(r, task, message) ==
    LET handled == update(r.state, message)
    IN  [state |-> handled.state, task |-> handled.task,
         running |-> Spawn(r.running (-) SetToBag({task}), handled.task),
         offered |-> r.offered]

\* at most this many tasks are running at a time
MaxTasks == 2

InitView ==
    /\ pc = "new"
    /\ arg = [type |-> "new"]
    /\ ret = [state |-> AppState_new.state, task |-> AppState_new.task,
              running |-> SetToBag({AppState_new.task}), offered |-> TRUE]

PressRefresh ==
    /\ ret.task # TaskPanic
    /\ Offered(ret.state, LoadApps)
    /\ BagCardinality(ret.running) < MaxTasks
    /\ pc' = "handle_load_apps"
    /\ arg' = LoadApps
    /\ ret' = Sent(ret, LoadApps)

\* what a load task delivers: the full list of apps, or an error
LoadOutcomes ==
    {Ok([i \in 1..MaxApps |-> IF i % 2 = 1 THEN FirefoxApp ELSE ChromeApp]),
     Err(ConnectionFailed)}

LoadDone ==
    \E result \in LoadOutcomes :
        /\ ret.task # TaskPanic
        /\ BagIn(TaskLoad, ret.running)
        /\ pc' = "handle_apps_loaded"
        /\ arg' = AppsLoaded(result)
        /\ ret' = Completed(ret, TaskLoad, AppsLoaded(result))

ToggleRow ==
    \E index \in 0..(MaxApps - 1) :
        /\ ret.task # TaskPanic
        /\ Offered(ret.state, ToggleApp(index))
        /\ pc' = "handle_toggle_app"
        /\ arg' = ToggleApp(index)
        /\ ret' = Sent(ret, ToggleApp(index))

PressUpdateSelected ==
    /\ ret.task # TaskPanic
    /\ Offered(ret.state, UpdateSelected)
    /\ pc' = "handle_update_selected"
    /\ arg' = UpdateSelected
    /\ ret' = Sent(ret, UpdateSelected)

UpdateDone ==
    \E task \in {t \in BagToSet(ret.running) : t.kind = "update_single_app"} :
        \E result \in UpdateOutcomes(task.id) :
            /\ ret.task # TaskPanic
            /\ pc' = "handle_update_single_complete"
            /\ arg' = UpdateSingleComplete(result)
            /\ ret' = Completed(ret, task, UpdateSingleComplete(result))

PressSelectAll ==
    /\ ret.task # TaskPanic
    /\ Offered(ret.state, SelectAll)
    /\ pc' = "handle_select_all"
    /\ arg' = SelectAll
    /\ ret' = Sent(ret, SelectAll)

PressDeselectAll ==
    /\ ret.task # TaskPanic
    /\ Offered(ret.state, DeselectAll)
    /\ pc' = "handle_deselect_all"
    /\ arg' = DeselectAll
    /\ ret' = Sent(ret, DeselectAll)

PressConfirm ==
    /\ ret.task # TaskPanic
    /\ Offered(ret.state, ConfirmUpdate)
    /\ BagCardinality(ret.running) < MaxTasks
    /\ pc' = "handle_confirm_update"
    /\ arg' = ConfirmUpdate
    /\ ret' = Sent(ret, ConfirmUpdate)

PressCancel ==
    /\ ret.task # TaskPanic
    /\ Offered(ret.state, CancelUpdate)
    /\ pc' = "handle_cancel_update"
    /\ arg' = CancelUpdate
    /\ ret' = Sent(ret, CancelUpdate)

PressClose ==
    /\ ret.task # TaskPanic
    /\ Offered(ret.state, CloseResultsDialog)
    /\ pc' = "handle_close_results_dialog"
    /\ arg' = CloseResultsDialog
    /\ ret' = Sent(ret, CloseResultsDialog)

TypeSearch ==
    \E query \in Queries :
        /\ ret.task # TaskPanic
        /\ pc' = "handle_search_changed"
        /\ arg' = SearchChanged(query)
        /\ ret' = Sent(ret, SearchChanged(query))

NextView ==
    \/ PressRefresh
    \/ LoadDone
    \/ ToggleRow
    \/ PressUpdateSelected
    \/ UpdateDone
    \/ PressSelectAll
    \/ PressDeselectAll
    \/ PressConfirm
    \/ PressCancel
    \/ PressClose
    \/ TypeSearch

SpecView == InitView /\ [][NextView]_vars

\* the runtime runs every update task to completion and delivers its
\* message
FairView == SpecView /\ WF_vars(UpdateDone)

\* UpdateSelected handled while a batch runs, where the toolbar does not
\* offer it, once
SendUpdateSelected ==
    /\ ret.task # TaskPanic
    /\ ret.offered
    /\ ret.state.updating
    /\ pc' = "handle_update_selected"
    /\ arg' = UpdateSelected
    /\ ret' = Sent(ret, UpdateSelected)

NextTasks ==
    \/ PressRefresh
    \/ LoadDone
    \/ ToggleRow
    \/ PressUpdateSelected
    \/ SendUpdateSelected
    \/ UpdateDone
    \/ PressSelectAll
    \/ PressDeselectAll
    \/ PressConfirm
    \/ PressCancel
    \/ PressClose
    \/ TypeSearch

SpecTasks == InitView /\ [][NextTasks]_vars

-----------------------------------------------------------------------------
(* Claims on the batch of updates, checked under SpecView, FairView and    *)
(* SpecTasks.                                                              *)

\* the number of update tasks running
RunningUpdates(r) ==
    BagCardinality([task \in {t \in BagToSet(r.running) :
                                  t.kind = "update_single_app"}
                       |-> CopiesIn(task, r.running)])

\* C26: the updates of a batch run one at a time in queue order: in every
\* state reached through messages the view offers and completions of issued
\* tasks, updating = true implies that exactly one update task is running;
\* it is the task for update_queue[k], k - 1 being the number of results
\* handled so far in the batch.
C26_OneUpdateAtATime ==
    ret.state.updating =>
        /\ RunningUpdates(ret) = 1
        /\ ret.state.update_completed = Len(ret.state.update_results)
        /\ ret.state.update_completed < Len(ret.state.update_queue)
        /\ BagIn(TaskUpdate(ret.state.update_queue[
                                ret.state.update_completed + 1]),
                 ret.running)

\* the second update of a batch runs, after the result of the first
C26_Witness ==
    /\ pc = "handle_update_single_complete"
    /\ ret.state.updating
    /\ ret.state.update_queue = <<MozillaFirefox, GoogleChrome>>
    /\ Len(ret.state.update_results) = 1
    /\ BagIn(TaskUpdate(GoogleChrome), ret.running)
    /\ RunningUpdates(ret) = 1

\* a batch of at least one update has just been confirmed
BatchConfirmed ==
    /\ pc = "handle_confirm_update"
    /\ ret.state.updating
    /\ Len(ret.state.update_queue) >= 1
    /\ ret.state.update_queue =
           [i \in 1..Len(ret.state.pending_updates) |->
               ret.state.pending_updates[i][2]]

\* the batch has ended with a result for each id of its queue
BatchEnded ==
    /\ ~ret.state.updating
    /\ ret.state.show_results_dialog
    /\ Len(ret.state.update_results) = Len(ret.state.update_queue)
    /\ \A i \in 1..Len(ret.state.update_queue) :
           ret.state.update_results[i]
               \in UpdateOutcomes(ret.state.update_queue[i])

\* C27: after ConfirmUpdate with n >= 1 pending updates, when every update
\* task issued delivers its UpdateSingleComplete, eventually updating is
\* false and the results dialog is shown with exactly n results, the i-th
\* being the result of the update of the i-th pending id: the queue holds
\* the pending ids when the batch is confirmed, it is not written while
\* updating stays true, and the batch ends with a result for each of its
\* ids.
C27_BatchEndsWithAllResults ==
    /\ [][(ret.state.updating /\ ret'.state.updating
              /\ pc' # "handle_confirm_update") =>
             ret'.state.update_queue = ret.state.update_queue]_vars
    /\ BatchConfirmed ~> BatchEnded

\* a batch of two has ended with its two results
C27_Witness ==
    /\ pc = "handle_update_single_complete"
    /\ ret.state.update_queue = <<MozillaFirefox, GoogleChrome>>
    /\ BatchEnded

\* the three counter properties of a batch
CountersInStep(s) ==
    /\ s.update_total = Len(s.update_queue)
    /\ s.update_completed = Len(s.update_results)
    /\ s.update_completed <= s.update_total

\* C28 as stated: whenever UpdateSingleComplete is delivered only as the
\* completion of an issued update task and ConfirmUpdate only while the
\* confirmation dialog is shown, update_total is the length of update_queue,
\* update_completed the length of update_results, and update_completed <=
\* update_total.
C28_CountersAlwaysInStep == CountersInStep(ret.state)

\* C28, amended: the same when, in addition, every message of the window was
\* sent where the view offers it (UpdateSelected not while a batch runs).
C28_CountersInStepInTheView == ret.offered => CountersInStep(ret.state)

\* the first of two updates of a batch has been counted
C28_Witness ==
    /\ ret.offered
    /\ pc = "handle_update_single_complete"
    /\ ret.state.updating
    /\ ret.state.update_completed = 1
    /\ Len(ret.state.update_results) = 1
    /\ ret.state.update_total = 2

\* a second batch confirmed while the first runs: more results than updates
C28_MoreResultsThanUpdates ==
    /\ ~ret.offered
    /\ ret.state.update_completed > ret.state.update_total

====
